---- MODULE Spec2Model ----
(***************************************************************************)
(* Model of the llm_compare request orchestration: prompt validation,     *)
(* cost estimation, the single-call executor with its retry policy, the   *)
(* asyncio fan-out of LLMAPIClient.compare_models and the thread-pool     *)
(* fan-out of compare_models in llm_compare.py.                            *)
(*                                                                         *)
(* Conventions.  An Optional value is a sequence of length 0 (None) or 1: *)
(* None == <<>>, Some(v) == <<v>>.  A prompt text is represented by the   *)
(* two things the code looks at, its length and whether it holds a NUL.   *)
(* Costs are exact: a rate is in 1/1000 USD per 1M tokens and a cost in   *)
(* 1e-9 USD, so cost = tokens * rate.  Time is in seconds.                 *)
(***************************************************************************)
EXTENDS Integers, Sequences, FiniteSets, TLC

(***************************************************************************)
(* Bounds of the model.                                                    *)
(***************************************************************************)
\* longest model list of a batch
MaxModels == 2

\* most chunks read from one stream
MaxChunks == 2

\* The longest result list ComparisonAnalytics is given.
MaxResults == 3

\* The most lines read in interactive mode.
MaxRounds == 2

(***************************************************************************)
(* Optional values and Python truthiness.                                  *)
(***************************************************************************)
None == <<>>

Some(v) == <<v>>

IsSet(o) == o # None

\* bool(text) of an Optional text [length, hasNul]
TruthyText(o) == IsSet(o) /\ o[1].length > 0

(***************************************************************************)
(* validators.py                                                           *)
(***************************************************************************)
MAX_PROMPT_LENGTH == 50000

MAX_SYSTEM_PROMPT_LENGTH == 10000

Text(n, z) == [length |-> n, hasNul |-> z]

\* a validate_prompt that rejects a text of exactly the limit length
validate_prompt_limit_exclusive(prompt, prompt_type) ==
  LET max_length == IF prompt_type = "system_prompt"
                    THEN MAX_SYSTEM_PROMPT_LENGTH ELSE MAX_PROMPT_LENGTH
  IN  IF prompt.length = 0 THEN "empty"
      ELSE IF prompt.length >= max_length THEN "too_long"
      ELSE IF prompt.hasNul THEN "null_bytes"
      ELSE "ok"

\* The outcome of validate_prompt: "ok" (returns True) or the ValueError raised.
validate_prompt(prompt, prompt_type) ==
  LET max_length == IF prompt_type = "system_prompt"
                    THEN MAX_SYSTEM_PROMPT_LENGTH ELSE MAX_PROMPT_LENGTH
  IN  IF prompt.length = 0 THEN "empty"
      ELSE IF prompt.length > max_length THEN "too_long"
      ELSE IF prompt.hasNul THEN "null_bytes"
      ELSE "ok"

(***************************************************************************)
(* cost_tracker.py                                                         *)
(***************************************************************************)
Cost(name, inRate, outRate) == [name |-> name, input |-> inRate, output |-> outRate]

\* The pricing table in dict iteration (insertion) order.
MODEL_COSTS ==
  << Cost("gpt-4o", 2500, 10000),
     Cost("gpt-4o-2024-11-20", 2500, 10000),
     Cost("gpt-4o-2024-08-06", 2500, 10000),
     Cost("gpt-4o-2024-05-13", 5000, 15000),
     Cost("gpt-4o-mini", 150, 600),
     Cost("gpt-4o-mini-2024-07-18", 150, 600),
     Cost("gpt-4-turbo", 10000, 30000),
     Cost("gpt-4-turbo-2024-04-09", 10000, 30000),
     Cost("gpt-4-turbo-preview", 10000, 30000),
     Cost("gpt-4", 30000, 60000),
     Cost("gpt-4-0613", 30000, 60000),
     Cost("gpt-4-0314", 30000, 60000),
     Cost("gpt-3.5-turbo", 500, 1500),
     Cost("gpt-3.5-turbo-0125", 500, 1500),
     Cost("gpt-3.5-turbo-1106", 1000, 2000),
     Cost("claude-3-5-sonnet-20241022", 3000, 15000),
     Cost("claude-3-5-sonnet-20240620", 3000, 15000),
     Cost("claude-3-opus-20240229", 15000, 75000),
     Cost("claude-3-sonnet-20240229", 3000, 15000),
     Cost("claude-3-haiku-20240307", 250, 1250),
     Cost("gemini/gemini-1.5-pro", 1250, 5000),
     Cost("gemini/gemini-1.5-pro-latest", 1250, 5000),
     Cost("gemini/gemini-1.5-flash", 75, 300),
     Cost("gemini/gemini-1.5-flash-latest", 75, 300),
     Cost("gemini/gemini-pro", 500, 1500) >>

\* a prefix list that lacks azure/
PROVIDER_PREFIXES_WITHOUT_AZURE == << "openai/", "anthropic/", "google/" >>

PROVIDER_PREFIXES == << "openai/", "anthropic/", "google/", "azure/" >>

UpperChars == "ABCDEFGHIJKLMNOPQRSTUVWXYZ"

LowerChars == "abcdefghijklmnopqrstuvwxyz"

\* str.lower() of one character
LowerChar(c) ==
  IF \E k \in 1..Len(UpperChars) : SubSeq(UpperChars, k, k) = c
  THEN LET k == CHOOSE k \in 1..Len(UpperChars) : SubSeq(UpperChars, k, k) = c
       IN  SubSeq(LowerChars, k, k)
  ELSE c

RECURSIVE Lower(_)
\* str.lower()
Lower(s) == IF Len(s) = 0 THEN s
            ELSE LowerChar(SubSeq(s, 1, 1)) \o Lower(SubSeq(s, 2, Len(s)))

\* str.startswith(prefix)
StartsWith(s, prefix) == Len(prefix) <= Len(s) /\ SubSeq(s, 1, Len(prefix)) = prefix

RECURSIVE StripPrefixes(_, _)
\* the loop over the provider prefixes, from prefix number k on
StripPrefixes(s, k) ==
  IF k > Len(PROVIDER_PREFIXES) THEN s
  ELSE IF StartsWith(s, PROVIDER_PREFIXES[k])
       THEN StripPrefixes(SubSeq(s, Len(PROVIDER_PREFIXES[k]) + 1, Len(s)), k + 1)
       ELSE StripPrefixes(s, k + 1)

NormalizeModel(model) == StripPrefixes(Lower(model), 1)

\* MODEL_COSTS.get(name), None when the name is no key
ExactCosts(name) ==
  IF \E k \in 1..Len(MODEL_COSTS) : MODEL_COSTS[k].name = name
  THEN Some(MODEL_COSTS[CHOOSE k \in 1..Len(MODEL_COSTS) : MODEL_COSTS[k].name = name])
  ELSE None

\* a partial match that prefers the longest key the name starts with
PrefixCostsLongest(name) ==
  LET hits == {k \in 1..Len(MODEL_COSTS) : StartsWith(name, MODEL_COSTS[k].name)}
  IN  IF hits = {} THEN None
      ELSE Some(MODEL_COSTS[CHOOSE k \in hits : \A j \in hits :
                  Len(MODEL_COSTS[k].name) >= Len(MODEL_COSTS[j].name)])

\* the partial-match loop: the first key, in table order, the name starts with
PrefixCosts(name) ==
  LET hits == {k \in 1..Len(MODEL_COSTS) : StartsWith(name, MODEL_COSTS[k].name)}
  IN  IF hits = {} THEN None
      ELSE Some(MODEL_COSTS[CHOOSE k \in hits : \A j \in hits : k <= j])

\* a lookup that tries the partial match before the exact key
LookupCostsPrefixFirst(name) ==
  IF IsSet(PrefixCosts(name)) THEN PrefixCosts(name) ELSE ExactCosts(name)

\* costs = MODEL_COSTS.get(normalized_model); if not costs: the partial match
LookupCosts(name) ==
  IF IsSet(ExactCosts(name)) THEN ExactCosts(name) ELSE PrefixCosts(name)

\* an estimate that counts a missing token count as zero
estimate_cost_missing_as_zero(model, prompt_tokens, completion_tokens) ==
  IF prompt_tokens = None /\ completion_tokens = None THEN None
  ELSE LET costs == LookupCosts(NormalizeModel(model))
           p == IF prompt_tokens = None THEN 0 ELSE prompt_tokens[1]
           c == IF completion_tokens = None THEN 0 ELSE completion_tokens[1]
       IN  IF costs = None THEN None
           ELSE Some(p * costs[1].input + c * costs[1].output)

estimate_cost(model, prompt_tokens, completion_tokens) ==
  IF prompt_tokens = None \/ completion_tokens = None THEN None
  ELSE LET costs == LookupCosts(NormalizeModel(model))
       IN  IF costs = None THEN None
           ELSE Some(prompt_tokens[1] * costs[1].input
                     + completion_tokens[1] * costs[1].output)

(***************************************************************************)
(* types.py and the inputs of the model                                    *)
(***************************************************************************)
ModelResponse(model, response, error, response_time, prompt_tokens, completion_tokens, total_tokens, estimated_cost) ==
  [model |-> model, response |-> response, error |-> error,
   response_time |-> response_time, prompt_tokens |-> prompt_tokens,
   completion_tokens |-> completion_tokens, total_tokens |-> total_tokens,
   estimated_cost |-> estimated_cost]

\* Model identifiers a batch may name.
ModelNames == {"gpt-4o", "unknown-model"}

\* Prompts: empty, valid, too long, holding a NUL byte.
Prompts == {Text(0, FALSE), Text(11, FALSE),
            Text(MAX_PROMPT_LENGTH + 1, FALSE), Text(11, TRUE)}

\* System prompts: not given, empty, valid, too long, holding a NUL byte.
SystemPrompts == {None, Some(Text(0, FALSE)), Some(Text(13, FALSE)),
                  Some(Text(MAX_SYSTEM_PROMPT_LENGTH + 1, FALSE)),
                  Some(Text(13, TRUE))}

RECURSIVE SeqsUpTo(_, _)
\* all sequences over S of length at most n
SeqsUpTo(S, n) ==
  IF n = 0 THEN {<<>>}
  ELSE LET shorter == SeqsUpTo(S, n - 1)
       IN  shorter \cup {Append(q, x) : q \in shorter, x \in S}

ModelLists == SeqsUpTo(ModelNames, MaxModels)

\* str(e) of the exceptions the remote call may raise
ErrorMessages == {"", "API connection error"}

\* str(IndexError) of choices[0] on an empty list
IndexErrorMessage == "list index out of range"

Usage(p, c, t) == [prompt_tokens |-> p, completion_tokens |-> c, total_tokens |-> t]

\* response.usage: missing or None, complete, or with a count left out
Usages == {None, Some(Usage(Some(10), Some(5), Some(15))),
           Some(Usage(None, Some(5), Some(5)))}

Choice(content) == [message |-> [content |-> content]]

\* response.choices: empty, a message without content, a message with content
ChoiceLists == {<<>>, <<Choice(None)>>, <<Choice(Some("Test response"))>>}

\* What acompletion may return for a non-streaming call.
Responses == {[choices |-> ch, usage |-> u] : ch \in ChoiceLists, u \in Usages}

\* Content fragments a streamed chunk may carry (delta.content).
Fragments == {None, Some(""), Some("a"), Some("b")}

(***************************************************************************)
(* State                                                                   *)
(***************************************************************************)
VARIABLES
  impl,            \* which compare_models runs: "api_client" (asyncio),
                   \* "legacy" (llm_compare.py, thread pool), "none" before
  pc,              \* "idle", "running", "returned", "raised", "exited";
                   \* "called" while get_model_response is called directly
  prompt,          \* argument prompt
  system_prompt,   \* argument system_prompt (Optional)
  models,          \* argument models
  stream,          \* argument stream
  task,            \* task[i]: the get_model_response call for models[i]
  results,         \* legacy: the pre-allocated list of result slots
  completed_count, \* legacy: the progress counter
  notifications,   \* legacy: the progress lines printed so far
  writes,          \* legacy: the assignments to result slots made so far
  output,          \* the list compare_models returned (Optional)
  raised,          \* the exception compare_models raised (Optional)
  validation,      \* a direct call of validate_prompt: arguments and outcome
  costing,         \* a direct call of estimate_cost: arguments and value
  self_results,    \* ComparisonAnalytics.results
  returned,        \* what each ComparisonAnalytics method returned last
  recalled,        \* TRUE once some method was called a second time
  client,          \* the LLMAPIClient: its constructor arguments
  config,          \* the Config object of the CLI (Optional)
  main             \* cli.main: its arguments, locals and position (Optional)

vars == <<impl, pc, prompt, system_prompt, models, stream, task, results,
          completed_count, notifications, writes, output, raised, validation,
          costing, self_results, returned, recalled, client, config, main>>

inputs == <<prompt, system_prompt, models, stream>>

legacy == <<results, completed_count, notifications, writes>>

\* The state of the direct calls of the library functions.
direct == <<validation, costing, self_results, returned, recalled>>

\* The objects the CLI builds at startup.
startup == <<client, config, main>>

(***************************************************************************)
(* api_client.py: the retry policy of _call_llm_with_retry                 *)
(***************************************************************************)
\* stop_after_attempt(3)
MAX_ATTEMPTS == 3

\* wait_exponential(multiplier=1, min=1, max=10)
WAIT_MULTIPLIER == 1

WAIT_MIN == 1

WAIT_MAX == 10

Min(a, b) == IF a <= b THEN a ELSE b

Max(a, b) == IF a >= b THEN a ELSE b

\* a stop condition that is off by one
ShouldStopLate(n) == n > MAX_ATTEMPTS

\* stop_after_attempt: no attempt follows attempt number n
ShouldStop(n) == n >= MAX_ATTEMPTS

\* a wait that stays at its minimum
WaitSecondsFixed(n) == WAIT_MIN

\* wait_exponential: the seconds slept after failed attempt number n
WaitSeconds(n) == Max(Max(0, WAIT_MIN), Min(WAIT_MULTIPLIER * 2 ^ (n - 1), WAIT_MAX))

\* without reraise the wrapper raises its own RetryError
RetryError(msg) == "RetryError"

\* reraise=True: what leaves the retry wrapper after the last attempt raised msg
Reraised(msg) == msg

\* Seconds one await of the remote call (or of one stream chunk) takes.
CallSeconds == {1}

(***************************************************************************)
(* api_client.py: get_model_response                                       *)
(***************************************************************************)
Message(role, content) == [role |-> role, content |-> content]

\* a messages list with the system message appended after the user message
BuildMessagesUserFirst(p, sp) ==
  <<Message("user", p)>>
    \o (IF TruthyText(sp) THEN <<Message("system", sp[1])>> ELSE <<>>)

\* the messages list
BuildMessages(p, sp) ==
  (IF TruthyText(sp) THEN <<Message("system", sp[1])>> ELSE <<>>)
    \o <<Message("user", p)>>

\* the except block
ExceptResponse(model, msg) ==
  ModelResponse(model, None, Some(msg), None, None, None, None, None)

\* the streaming branch after the last chunk
StreamResponse(model, full_response, response_time) ==
  ModelResponse(model, Some(full_response), None, Some(response_time),
                None, None, None, None)

\* a non-streaming branch whose late failure keeps the metrics already read
CompletionResponseKeepsMetrics(model, response, response_time) ==
  LET usage == response.usage
      prompt_tokens == IF IsSet(usage) THEN usage[1].prompt_tokens ELSE None
      completion_tokens == IF IsSet(usage) THEN usage[1].completion_tokens ELSE None
      total_tokens == IF IsSet(usage) THEN usage[1].total_tokens ELSE None
      estimated_cost == estimate_cost(model, prompt_tokens, completion_tokens)
  IN  ModelResponse(model,
                    IF Len(response.choices) = 0 THEN None
                    ELSE response.choices[1].message.content,
                    IF Len(response.choices) = 0 THEN Some(IndexErrorMessage)
                    ELSE None,
                    Some(response_time), prompt_tokens, completion_tokens,
                    total_tokens, estimated_cost)

\* the non-streaming branch; an empty choices list raises IndexError
CompletionResponse(model, response, response_time) ==
  LET usage == response.usage
      prompt_tokens == IF IsSet(usage) THEN usage[1].prompt_tokens ELSE None
      completion_tokens == IF IsSet(usage) THEN usage[1].completion_tokens ELSE None
      total_tokens == IF IsSet(usage) THEN usage[1].total_tokens ELSE None
      estimated_cost == estimate_cost(model, prompt_tokens, completion_tokens)
  IN  IF Len(response.choices) = 0
      THEN ExceptResponse(model, IndexErrorMessage)
      ELSE ModelResponse(model, response.choices[1].message.content, None,
                         Some(response_time), prompt_tokens, completion_tokens,
                         total_tokens, estimated_cost)

\* A call of get_model_response that has not run yet.  Beside the locals of
\* the call (messages, full_response, result) the record keeps its history:
\* the remote calls made (attempts), how the latest one ended (last), what the
\* failed ones raised (excs), what the successful one returned (reply), the
\* message list each remote call was given (sent), the content of the chunks
\* read, in arrival order (fragments), the seconds of each backoff sleep
\* started (waits), and the seconds passed since start_time.
NewTask(model) ==
  [pc |-> "pending", model |-> model, attempts |-> 0, last |-> "none",
   excs |-> <<>>, reply |-> None, elapsed |-> 0, messages |-> <<>>,
   sent |-> <<>>, chunks |-> 0, fragments |-> <<>>, waits |-> <<>>,
   full_response |-> "",
   collected |-> FALSE, result |-> None]

IsDone(t) == t.pc = "done"

Tasks == DOMAIN task

\* Calls of the asyncio client run while compare_models awaits them or while
\* get_model_response was called directly.
Active == impl = "api_client" /\ pc \in {"running", "called"}

\* A streamed chunk; chunk.choices may be empty.
Chunk(content) == [choices |-> <<[delta |-> [content |-> content]]>>]

EmptyChunk == [choices |-> <<>>]

Chunks == {Chunk(f) : f \in Fragments} \cup {EmptyChunk}

\* a streaming loop that keeps the latest fragment only
AccumulateLatest(full_response, content) ==
  IF IsSet(content) /\ content[1] # "" THEN content[1] ELSE full_response

\* if content: full_response += content
Accumulate(full_response, content) ==
  IF IsSet(content) /\ content[1] # "" THEN full_response \o content[1]
  ELSE full_response

\* the try block up to the first await: messages built, first attempt started
StartTask(i) ==
  /\ Active
  /\ i \in Tasks
  /\ task[i].pc = "pending"
  /\ task' = [task EXCEPT ![i].pc = "calling",
                          ![i].messages = BuildMessages(prompt, system_prompt),
                          ![i].sent = <<BuildMessages(prompt, system_prompt)>>,
                          ![i].attempts = 1]
  /\ UNCHANGED <<impl, pc, inputs, legacy, output, raised, direct, startup>>

\* acompletion raises: retry after a wait, or give up and reach the except block
AttemptRaises(i, msg, d) ==
  /\ Active
  /\ i \in Tasks
  /\ task[i].pc = "calling"
  /\ task' = [task EXCEPT
       ![i].last = "raised",
       ![i].excs = Append(@, msg),
       ![i].elapsed = @ + d,
       ![i].waits = IF ShouldStop(task[i].attempts) THEN @
                    ELSE Append(@, WaitSeconds(task[i].attempts)),
       ![i].pc = IF ShouldStop(task[i].attempts) THEN "done" ELSE "waiting",
       ![i].result = IF ShouldStop(task[i].attempts)
                     THEN Some(ExceptResponse(task[i].model, Reraised(msg)))
                     ELSE None]
  /\ UNCHANGED <<impl, pc, inputs, legacy, output, raised, direct, startup>>

\* the backoff sleep is over: the next attempt starts
BackoffDone(i) ==
  /\ Active
  /\ i \in Tasks
  /\ task[i].pc = "waiting"
  /\ task' = [task EXCEPT ![i].pc = "calling",
                          ![i].elapsed = @ + WaitSeconds(task[i].attempts),
                          ![i].sent = Append(@, task[i].messages),
                          ![i].attempts = @ + 1]
  /\ UNCHANGED <<impl, pc, inputs, legacy, output, raised, direct, startup>>

\* a completion whose response_time is that of the returning attempt alone
AttemptReturnsTimedFromAttempt(i, response, d) ==
  /\ Active
  /\ ~stream
  /\ i \in Tasks
  /\ task[i].pc = "calling"
  /\ task' = [task EXCEPT
       ![i].last = "returned",
       ![i].reply = Some(response),
       ![i].elapsed = @ + d,
       ![i].pc = "done",
       ![i].result = Some(CompletionResponse(task[i].model, response, d))]
  /\ UNCHANGED <<impl, pc, inputs, legacy, output, raised, direct, startup>>

\* acompletion returns a completion (stream=False): the result is built
AttemptReturns(i, response, d) ==
  /\ Active
  /\ ~stream
  /\ i \in Tasks
  /\ task[i].pc = "calling"
  /\ task' = [task EXCEPT
       ![i].last = "returned",
       ![i].reply = Some(response),
       ![i].elapsed = @ + d,
       ![i].pc = "done",
       ![i].result = Some(CompletionResponse(task[i].model, response,
                                             task[i].elapsed + d))]
  /\ UNCHANGED <<impl, pc, inputs, legacy, output, raised, direct, startup>>

\* acompletion returns the chunk iterator (stream=True)
AttemptReturnsStream(i, d) ==
  /\ Active
  /\ stream
  /\ i \in Tasks
  /\ task[i].pc = "calling"
  /\ task' = [task EXCEPT ![i].last = "returned",
                          ![i].elapsed = @ + d,
                          ![i].pc = "streaming"]
  /\ UNCHANGED <<impl, pc, inputs, legacy, output, raised, direct, startup>>

\* one iteration of the async for loop; chunk.choices[0] raises on no choices
StreamChunk(i, chunk, d) ==
  /\ Active
  /\ i \in Tasks
  /\ task[i].pc = "streaming"
  /\ task[i].chunks < MaxChunks
  /\ IF Len(chunk.choices) = 0
     THEN task' = [task EXCEPT
            ![i].chunks = @ + 1,
            ![i].elapsed = @ + d,
            ![i].pc = "done",
            ![i].result = Some(ExceptResponse(task[i].model, IndexErrorMessage))]
     ELSE LET content == chunk.choices[1].delta.content
          IN  task' = [task EXCEPT
                ![i].chunks = @ + 1,
                ![i].elapsed = @ + d,
                ![i].fragments = Append(@, content),
                ![i].full_response = Accumulate(@, content)]
  /\ UNCHANGED <<impl, pc, inputs, legacy, output, raised, direct, startup>>

\* a stream failure that the retry policy covers like a failed call
StreamRaisesRetried(i, msg, d) ==
  /\ Active
  /\ i \in Tasks
  /\ task[i].pc = "streaming"
  /\ task' = [task EXCEPT
       ![i].elapsed = @ + d,
       ![i].excs = Append(@, msg),
       ![i].waits = IF ShouldStop(task[i].attempts) THEN @
                    ELSE Append(@, WaitSeconds(task[i].attempts)),
       ![i].pc = IF ShouldStop(task[i].attempts) THEN "done" ELSE "waiting",
       ![i].result = IF ShouldStop(task[i].attempts)
                     THEN Some(ExceptResponse(task[i].model, msg))
                     ELSE None]
  /\ UNCHANGED <<impl, pc, inputs, legacy, output, raised, direct, startup>>

\* the chunk iterator raises while the stream is consumed
StreamRaises(i, msg, d) ==
  /\ Active
  /\ i \in Tasks
  /\ task[i].pc = "streaming"
  /\ task' = [task EXCEPT
       ![i].elapsed = @ + d,
       ![i].pc = "done",
       ![i].result = Some(ExceptResponse(task[i].model, msg))]
  /\ UNCHANGED <<impl, pc, inputs, legacy, output, raised, direct, startup>>

\* the chunk iterator is exhausted
StreamEnd(i) ==
  /\ Active
  /\ i \in Tasks
  /\ task[i].pc = "streaming"
  /\ task' = [task EXCEPT
       ![i].pc = "done",
       ![i].result = Some(StreamResponse(task[i].model, task[i].full_response,
                                         task[i].elapsed))]
  /\ UNCHANGED <<impl, pc, inputs, legacy, output, raised, direct, startup>>

\* get_model_response is called directly, outside a batch
GetModelResponse(m, p, sp, st) ==
  /\ pc = "idle"
  /\ impl' = "api_client"
  /\ pc' = "called"
  /\ prompt' = p
  /\ system_prompt' = sp
  /\ models' = <<m>>
  /\ stream' = st
  /\ task' = <<NewTask(m)>>
  /\ UNCHANGED <<legacy, output, raised, direct, startup>>

(***************************************************************************)
(* api_client.py: compare_models                                           *)
(***************************************************************************)
Exception(type, prompt_type, error) ==
  [type |-> type, prompt_type |-> prompt_type, error |-> error]

\* validation that forgets the system prompt
ValidatePromptOnly(p, sp) ==
  IF validate_prompt(p, "prompt") # "ok"
  THEN Some(Exception("ValueError", "prompt", validate_prompt(p, "prompt")))
  ELSE None

\* the two validate_prompt calls: None, or the ValueError raised
ValidateInputs(p, sp) ==
  IF validate_prompt(p, "prompt") # "ok"
  THEN Some(Exception("ValueError", "prompt", validate_prompt(p, "prompt")))
  ELSE IF TruthyText(sp) /\ validate_prompt(sp[1], "system_prompt") # "ok"
  THEN Some(Exception("ValueError", "system_prompt",
                      validate_prompt(sp[1], "system_prompt")))
  ELSE None

\* gather as it would resolve if a failed call ended the wait
GatherFailFast(t) ==
  \/ \A i \in DOMAIN t : IsDone(t[i])
  \/ \E i \in DOMAIN t : IsDone(t[i]) /\ IsSet(t[i].result[1].error)

\* asyncio.gather is resolved when every awaitable has finished
GatherReady(t) == \A i \in DOMAIN t : IsDone(t[i])

RECURSIVE GatherSuccessful(_, _)
\* the results with the failed ones filtered out
GatherSuccessful(t, i) ==
  IF i > Len(t) THEN <<>>
  ELSE (IF IsSet(t[i].result) /\ ~IsSet(t[i].result[1].error)
        THEN t[i].result ELSE <<>>) \o GatherSuccessful(t, i + 1)

RECURSIVE GatherResults(_, _)
\* list(results): the results of the awaitables, in the order they were passed
GatherResults(t, i) ==
  IF i > Len(t) THEN <<>> ELSE t[i].result \o GatherResults(t, i + 1)

\* compare_models is called: validation, then one coroutine per model
Call(p, sp, ms, st) ==
  /\ pc = "idle"
  /\ impl' = "api_client"
  /\ prompt' = p
  /\ system_prompt' = sp
  /\ models' = ms
  /\ stream' = st
  /\ IF IsSet(ValidateInputs(p, sp))
     THEN /\ pc' = "raised"
          /\ raised' = ValidateInputs(p, sp)
          /\ task' = <<>>
     ELSE /\ pc' = "running"
          /\ raised' = None
          /\ task' = [i \in 1..Len(ms) |-> NewTask(ms[i])]
  /\ UNCHANGED <<legacy, output, direct, startup>>

\* await asyncio.gather(...) resumes and the list is returned
Return ==
  /\ impl = "api_client"
  /\ pc = "running"
  /\ GatherReady(task)
  /\ output' = Some(GatherResults(task, 1))
  /\ pc' = "returned"
  /\ UNCHANGED <<impl, inputs, task, legacy, raised, direct, startup>>

(***************************************************************************)
(* llm_compare.py: the thread-pool implementation                          *)
(***************************************************************************)
\* the dict of the except block (it has no estimated_cost key)
LegacyExceptResponse(model, msg) ==
  [model |-> model, response |-> None, error |-> Some(msg),
   response_time |-> None, prompt_tokens |-> None,
   completion_tokens |-> None, total_tokens |-> None]

\* the dict of the try block; an empty choices list raises IndexError
LegacyCompletionResponse(model, response, response_time) ==
  LET usage == response.usage
  IN  IF Len(response.choices) = 0
      THEN LegacyExceptResponse(model, IndexErrorMessage)
      ELSE [model |-> model,
            response |-> response.choices[1].message.content,
            error |-> None,
            response_time |-> Some(response_time),
            prompt_tokens |-> IF IsSet(usage) THEN usage[1].prompt_tokens ELSE None,
            completion_tokens |->
              IF IsSet(usage) THEN usage[1].completion_tokens ELSE None,
            total_tokens |-> IF IsSet(usage) THEN usage[1].total_tokens ELSE None]

\* ThreadPoolExecutor(max_workers=n): None, or the ValueError of a pool
\* without workers
ThreadPoolExecutor(max_workers) ==
  IF max_workers <= 0
  THEN Some(Exception("ValueError", "", "max_workers must be greater than 0"))
  ELSE None

\* compare_models is called: validation (sys.exit(1) on failure), the slots,
\* the pool, one submitted call per model
LegacyCall(p, sp, ms) ==
  /\ pc = "idle"
  /\ impl' = "legacy"
  /\ prompt' = p
  /\ system_prompt' = sp
  /\ models' = ms
  /\ stream' = FALSE
  /\ completed_count' = 0
  /\ notifications' = <<>>
  /\ writes' = <<>>
  /\ IF IsSet(ValidateInputs(p, sp))
     THEN /\ pc' = "exited"
          /\ raised' = Some(Exception("SystemExit", ValidateInputs(p, sp)[1].prompt_type,
                                      ValidateInputs(p, sp)[1].error))
          /\ task' = <<>>
          /\ results' = <<>>
     ELSE /\ results' = [i \in 1..Len(ms) |-> None]
          /\ IF IsSet(ThreadPoolExecutor(Len(ms)))
             THEN /\ pc' = "raised"
                  /\ raised' = ThreadPoolExecutor(Len(ms))
                  /\ task' = <<>>
             ELSE /\ pc' = "running"
                  /\ raised' = None
                  /\ task' = [i \in 1..Len(ms) |-> NewTask(ms[i])]
  /\ UNCHANGED <<output, direct, startup>>

\* Worker threads run while compare_models collects them or while
\* get_model_response was called directly.
LegacyActive == impl = "legacy" /\ pc \in {"running", "called"}

\* a worker thread runs get_model_response up to the completion call
LegacyStart(i) ==
  /\ LegacyActive
  /\ i \in Tasks
  /\ task[i].pc = "pending"
  /\ task' = [task EXCEPT ![i].pc = "calling",
                          ![i].messages = BuildMessages(prompt, system_prompt),
                          ![i].sent = <<BuildMessages(prompt, system_prompt)>>,
                          ![i].attempts = 1]
  /\ UNCHANGED <<impl, pc, inputs, legacy, output, raised, direct, startup>>

\* completion raises: the except block builds the result
LegacyRaises(i, msg, d) ==
  /\ LegacyActive
  /\ i \in Tasks
  /\ task[i].pc = "calling"
  /\ task' = [task EXCEPT
       ![i].last = "raised",
       ![i].excs = Append(@, msg),
       ![i].elapsed = @ + d,
       ![i].pc = "done",
       ![i].result = Some(LegacyExceptResponse(task[i].model, msg))]
  /\ UNCHANGED <<impl, pc, inputs, legacy, output, raised, direct, startup>>

\* completion returns: the result is built
LegacyReturns(i, response, d) ==
  /\ LegacyActive
  /\ i \in Tasks
  /\ task[i].pc = "calling"
  /\ task' = [task EXCEPT
       ![i].last = "returned",
       ![i].reply = Some(response),
       ![i].elapsed = @ + d,
       ![i].pc = "done",
       ![i].result = Some(LegacyCompletionResponse(task[i].model, response,
                                                   task[i].elapsed + d))]
  /\ UNCHANGED <<impl, pc, inputs, legacy, output, raised, direct, startup>>

\* get_model_response of llm_compare.py is called directly, outside a batch
LegacyGetModelResponse(m, p, sp) ==
  /\ pc = "idle"
  /\ impl' = "legacy"
  /\ pc' = "called"
  /\ prompt' = p
  /\ system_prompt' = sp
  /\ models' = <<m>>
  /\ stream' = FALSE
  /\ task' = <<NewTask(m)>>
  /\ UNCHANGED <<legacy, output, raised, direct, startup>>

\* a progress line that counts the calls finished before this one
NotificationCountingFromZero(count, total, model, result) ==
  [count |-> count - 1, total |-> total, model |-> model,
   ok |-> ~(IsSet(result.error) /\ result.error[1] # "")]

\* the progress line of one finished call
Notification(count, total, model, result) ==
  [count |-> count, total |-> total, model |-> model,
   ok |-> ~(IsSet(result.error) /\ result.error[1] # "")]

RECURSIVE LastIndexOf(_, _, _)
\* the last position of model in ms, at or before position k
LastIndexOf(ms, model, k) ==
  IF k = 0 \/ ms[k] = model THEN k ELSE LastIndexOf(ms, model, k - 1)

\* an index dict keyed by the model name instead of the future
ModelToIndex(ms) == [i \in 1..Len(ms) |-> LastIndexOf(ms, ms[i], Len(ms))]

\* future_to_index: the future submitted for models[i] maps to i
FutureToIndex(ms) == [i \in 1..Len(ms) |-> i]

\* one iteration of the as_completed loop, for the finished future of index i
Collect(i) ==
  /\ LegacyActive
  /\ pc = "running"
  /\ i \in Tasks
  /\ IsDone(task[i])
  /\ ~task[i].collected
  /\ completed_count' = completed_count + 1
  /\ results' = [results EXCEPT ![FutureToIndex(models)[i]] = task[i].result]
  /\ writes' = Append(writes, [index |-> FutureToIndex(models)[i], future |-> i,
                               result |-> task[i].result])
  /\ notifications' = Append(notifications,
       Notification(completed_count + 1, Len(models), models[i], task[i].result[1]))
  /\ task' = [task EXCEPT ![i].collected = TRUE]
  /\ UNCHANGED <<impl, pc, inputs, output, raised, direct, startup>>

\* as_completed has yielded every future
AllCollected(t) == \A i \in DOMAIN t : t[i].collected

RECURSIVE Slots(_, _)
\* the filled slots of the result list, in slot order
Slots(r, i) == IF i > Len(r) THEN <<>> ELSE r[i] \o Slots(r, i + 1)

\* the loop and the with block are left: results is returned
LegacyReturn ==
  /\ LegacyActive
  /\ pc = "running"
  /\ AllCollected(task)
  /\ output' = Some(Slots(results, 1))
  /\ pc' = "returned"
  /\ UNCHANGED <<impl, inputs, task, legacy, raised, direct, startup>>

(***************************************************************************)
(* Specifications                                                          *)
(***************************************************************************)
\* No compare_models and no get_model_response call was made yet.
Idle ==
  /\ impl = "none"
  /\ pc = "idle"
  /\ prompt = Text(0, FALSE)
  /\ system_prompt = None
  /\ models = <<>>
  /\ stream = FALSE
  /\ task = <<>>
  /\ results = <<>>
  /\ completed_count = 0
  /\ notifications = <<>>
  /\ writes = <<>>
  /\ output = None
  /\ raised = None

\* LLMAPIClient(max_retries, retry_delay, timeout): the three attributes, the
\* delay in tenths of a second
Client(max_retries, retry_delay, timeout) ==
  [max_retries |-> max_retries, retry_delay |-> retry_delay, timeout |-> timeout]

\* A client built with the default arguments; main was not entered.
NoStartup ==
  /\ client = Client(3, 10, 120)
  /\ config = None
  /\ main = None

\* No analytics object was built.
NoAnalytics ==
  /\ self_results = <<>>
  /\ returned = <<>>
  /\ recalled = FALSE

Init ==
  /\ Idle
  /\ validation = None
  /\ costing = None
  /\ NoAnalytics
  /\ NoStartup

\* What the remote side does in the batches explored: a completion with usage
\* or one without choices, one error; a stream ends or fails before its first
\* chunk (CallSpec explores the chunks).
BatchResponses ==
  {[choices |-> <<Choice(Some("Test response"))>>,
    usage |-> Some(Usage(Some(10), Some(5), Some(15)))],
   [choices |-> <<>>, usage |-> None]}

BatchErrorMessages == {"API connection error"}

\* The coroutines of one asyncio batch, interleaved at their awaits.
TaskStep(i) ==
  \/ StartTask(i)
  \/ \E msg \in BatchErrorMessages, d \in CallSeconds : AttemptRaises(i, msg, d)
  \/ BackoffDone(i)
  \/ \E r \in BatchResponses, d \in CallSeconds : AttemptReturns(i, r, d)
  \/ \E d \in CallSeconds : AttemptReturnsStream(i, d)
  \/ \E msg \in BatchErrorMessages, d \in CallSeconds : StreamRaises(i, msg, d)
  \/ StreamEnd(i)

\* The worker threads and the collecting loop of one thread-pool batch.
LegacyStep(i) ==
  \/ LegacyStart(i)
  \/ \E msg \in BatchErrorMessages, d \in CallSeconds : LegacyRaises(i, msg, d)
  \/ \E r \in BatchResponses, d \in CallSeconds : LegacyReturns(i, r, d)
  \/ Collect(i)

Steps ==
  \/ \E i \in 1..MaxModels : TaskStep(i)
  \/ \E i \in 1..MaxModels : LegacyStep(i)
  \/ Return
  \/ LegacyReturn

Next ==
  \/ \E p \in Prompts, sp \in SystemPrompts, ms \in ModelLists, st \in BOOLEAN :
       Call(p, sp, ms, st)
  \/ \E p \in Prompts, sp \in SystemPrompts, ms \in ModelLists :
       LegacyCall(p, sp, ms)
  \/ Steps

\* compare_models, both implementations: batches of up to MaxModels models
Spec == Init /\ [][Next]_vars

FairNext ==
  \/ \E p \in Prompts, ms \in ModelLists, st \in BOOLEAN : Call(p, None, ms, st)
  \/ \E p \in Prompts, ms \in ModelLists : LegacyCall(p, None, ms)
  \/ Steps

\* The batches without a system prompt, where the event loop (the thread
\* scheduler) runs every call that can run and every remote call returns or
\* raises.
FairSpec == Init /\ [][FairNext]_vars /\ WF_vars(Steps)

\* Model identifiers of single calls.
CallModels == {"gpt-4o", "openai/GPT-4o-mini", "unknown-model"}

CallNext ==
  \/ \E m \in CallModels, p \in Prompts, sp \in SystemPrompts, st \in BOOLEAN :
       GetModelResponse(m, p, sp, st)
  \/ StartTask(1)
  \/ \E msg \in ErrorMessages, d \in CallSeconds : AttemptRaises(1, msg, d)
  \/ BackoffDone(1)
  \/ \E r \in Responses, d \in CallSeconds : AttemptReturns(1, r, d)
  \/ \E d \in CallSeconds : AttemptReturnsStream(1, d)
  \/ \E c \in Chunks, d \in CallSeconds : StreamChunk(1, c, d)
  \/ \E msg \in ErrorMessages, d \in CallSeconds : StreamRaises(1, msg, d)
  \/ StreamEnd(1)
  \/ \E m \in CallModels, p \in Prompts, sp \in SystemPrompts :
       LegacyGetModelResponse(m, p, sp)
  \/ LegacyStart(1)
  \/ \E msg \in ErrorMessages, d \in CallSeconds : LegacyRaises(1, msg, d)
  \/ \E r \in Responses, d \in CallSeconds : LegacyReturns(1, r, d)

\* get_model_response of both implementations: one call, every behaviour of
\* the remote side
CallSpec == Init /\ [][CallNext]_vars

(***************************************************************************)
(* api_client.py: a client built with a max_retries of the caller's choice  *)
(***************************************************************************)
\* Values of max_retries: no retry, one, the default, more than the default.
MaxRetriesValues == {0, 1, 3, 5}

\* LLMAPIClient(max_retries=n, retry_delay=1.0, timeout=120)
ClientInit ==
  /\ Idle
  /\ validation = None
  /\ costing = None
  /\ NoAnalytics
  /\ client \in {Client(n, 10, 120) : n \in MaxRetriesValues}
  /\ config = None
  /\ main = None

ClientNext ==
  \/ \E m \in CallModels, p \in Prompts : GetModelResponse(m, p, None, FALSE)
  \/ StartTask(1)
  \/ \E msg \in ErrorMessages, d \in CallSeconds : AttemptRaises(1, msg, d)
  \/ BackoffDone(1)
  \/ \E r \in BatchResponses, d \in CallSeconds : AttemptReturns(1, r, d)

\* get_model_response of a client with any max_retries, stream=False
ClientSpec == ClientInit /\ [][ClientNext]_vars

(***************************************************************************)
(* validators.py and llm_compare.py: validate_prompt called directly        *)
(***************************************************************************)
\* Lengths around the two limits, and far from them.
TextLengths ==
  {0, 1, 2, 5000, 9999, 10000, 10001, 10002, 25000, 49999, 50000, 50001,
   50002, 100000}

\* A str with no character holds no NUL byte.
Texts == {Text(n, z) : n \in TextLengths, z \in BOOLEAN} \ {Text(0, TRUE)}

PromptTypes == {"prompt", "system_prompt"}

ValidationCall(prompt_, prompt_type, outcome) ==
  [prompt |-> prompt_, prompt_type |-> prompt_type, outcome |-> outcome]

ValidateInit ==
  /\ Idle
  /\ validation \in {Some(ValidationCall(t, k, None)) :
                        t \in Texts, k \in PromptTypes}
  /\ costing = None
  /\ NoAnalytics
  /\ NoStartup

\* validate_prompt of validators.py returns True or raises ValueError
ValidatePrompt ==
  /\ IsSet(validation)
  /\ validation[1].outcome = None
  /\ validation' = Some([validation[1] EXCEPT
       !.outcome = Some([by |-> "validators",
                         value |-> validate_prompt(validation[1].prompt,
                                                   validation[1].prompt_type)])])
  /\ UNCHANGED <<impl, pc, inputs, task, legacy, output, raised, costing,
                 self_results, returned, recalled, startup>>

\* validate_prompt of llm_compare.py: the same checks in the same order
LegacyValidatePrompt ==
  /\ IsSet(validation)
  /\ validation[1].outcome = None
  /\ validation' = Some([validation[1] EXCEPT
       !.outcome = Some([by |-> "llm_compare",
                         value |-> validate_prompt(validation[1].prompt,
                                                   validation[1].prompt_type)])])
  /\ UNCHANGED <<impl, pc, inputs, task, legacy, output, raised, costing,
                 self_results, returned, recalled, startup>>

ValidateNext == ValidatePrompt \/ LegacyValidatePrompt

ValidateSpec == ValidateInit /\ [][ValidateNext]_vars

(***************************************************************************)
(* cost_tracker.py: estimate_cost called directly                           *)
(***************************************************************************)
\* Identifiers that are keys, that carry a provider prefix or capitals, that
\* extend one or several keys, and that match no key.
CostInputModels ==
  {"gpt-4o", "gpt-4o-mini", "gpt-4o-mini-2024-07-18", "openai/GPT-4o-mini",
   "gpt-4o-mini-2024-09-01", "gpt-4-turbo-2024-04-09", "gpt-4-turbo-preview-0125",
   "gpt-4-32k", "gpt-3.5-turbo-16k", "claude-3-opus",
   "anthropic/claude-3-5-sonnet-20241022", "gemini/gemini-1.5-flash",
   "google/gemini-1.5-pro", "openai/azure/gpt-4o", "unknown-model"}

PromptTokenCounts == {None, Some(0), Some(1000)}

CompletionTokenCounts == {None, Some(0), Some(500)}

\* str.upper() of one character
UpperChar(c) ==
  IF \E k \in 1..Len(LowerChars) : SubSeq(LowerChars, k, k) = c
  THEN LET k == CHOOSE k \in 1..Len(LowerChars) : SubSeq(LowerChars, k, k) = c
       IN  SubSeq(UpperChars, k, k)
  ELSE c

RECURSIVE Upper(_)
\* str.upper()
Upper(s) == IF Len(s) = 0 THEN s
            ELSE UpperChar(SubSeq(s, 1, 1)) \o Upper(SubSeq(s, 2, Len(s)))

\* Other spellings of a model identifier: behind a provider prefix, and in
\* capitals.
Variants == {"openai/", "anthropic/", "google/", "azure/", "upper"}

Variant(model, v) == IF v = "upper" THEN Upper(model) ELSE v \o model

\* A call of estimate_cost and its value, with the values of the calls made
\* for the other spellings of the model.
CostCall(model, prompt_tokens, completion_tokens, value) ==
  [model |-> model, prompt_tokens |-> prompt_tokens,
   completion_tokens |-> completion_tokens, value |-> value,
   variants |-> [v \in Variants |-> None]]

CostInit ==
  /\ Idle
  /\ validation = None
  /\ costing \in {Some(CostCall(m, p, c, None)) :
                     m \in CostInputModels, p \in PromptTokenCounts,
                     c \in CompletionTokenCounts}
  /\ NoAnalytics
  /\ NoStartup

\* estimate_cost returns a cost or None
EstimateCost ==
  /\ IsSet(costing)
  /\ costing[1].value = None
  /\ costing' = Some([costing[1] EXCEPT
       !.value = Some(estimate_cost(costing[1].model, costing[1].prompt_tokens,
                                    costing[1].completion_tokens))])
  /\ UNCHANGED <<impl, pc, inputs, task, legacy, output, raised, validation,
                 self_results, returned, recalled, startup>>

\* estimate_cost is called for another spelling of the model
EstimateCostOfVariant(v) ==
  /\ IsSet(costing)
  /\ costing[1].variants[v] = None
  /\ costing' = Some([costing[1] EXCEPT
       !.variants[v] = Some(estimate_cost(Variant(costing[1].model, v),
                                          costing[1].prompt_tokens,
                                          costing[1].completion_tokens))])
  /\ UNCHANGED <<impl, pc, inputs, task, legacy, output, raised, validation,
                 self_results, returned, recalled, startup>>

CostNext ==
  \/ EstimateCost
  \/ \E v \in Variants : EstimateCostOfVariant(v)

CostSpec == CostInit /\ [][CostNext]_vars

(***************************************************************************)
(* analytics.py: ComparisonAnalytics                                        *)
(***************************************************************************)
\* not r["error"]: the error is None or the empty string
NoError(r) == ~IsSet(r.error) \/ r.error[1] = ""

\* [r for r in self.results if r[field] is not None and not r["error"]]
ValidResults(rs, field) ==
  SelectSeq(rs, LAMBDA r : IsSet(r[field]) /\ NoError(r))

\* a minimum that takes the last element with the least key
MinByLast(rs, field) ==
  rs[CHOOSE i \in 1..Len(rs) :
       /\ \A j \in 1..Len(rs) : rs[i][field][1] <= rs[j][field][1]
       /\ \A j \in (i + 1)..Len(rs) : rs[j][field][1] > rs[i][field][1]]

\* min(rs, key=lambda r: r[field]): the first element with the least key
MinBy(rs, field) ==
  rs[CHOOSE i \in 1..Len(rs) :
       /\ \A j \in 1..Len(rs) : rs[i][field][1] <= rs[j][field][1]
       /\ \A j \in 1..(i - 1) : rs[j][field][1] > rs[i][field][1]]

\* max(rs, key=lambda r: r[field]): the first element with the greatest key
MaxBy(rs, field) ==
  rs[CHOOSE i \in 1..Len(rs) :
       /\ \A j \in 1..Len(rs) : rs[i][field][1] >= rs[j][field][1]
       /\ \A j \in 1..(i - 1) : rs[j][field][1] < rs[i][field][1]]

RECURSIVE SumOf(_, _)
\* sum(r[field] for r in rs)
SumOf(rs, field) ==
  IF rs = <<>> THEN 0 ELSE Head(rs)[field][1] + SumOf(Tail(rs), field)

\* The float num / den, kept exact.
Fraction(num, den) == [num |-> num, den |-> den]

get_fastest_model(rs) ==
  LET valid_results == ValidResults(rs, "response_time")
  IN  IF valid_results = <<>> THEN None
      ELSE Some(MinBy(valid_results, "response_time").model)

get_slowest_model(rs) ==
  LET valid_results == ValidResults(rs, "response_time")
  IN  IF valid_results = <<>> THEN None
      ELSE Some(MaxBy(valid_results, "response_time").model)

\* a mean that divides by the number of all results
get_average_response_time_over_all(rs) ==
  LET times == ValidResults(rs, "response_time")
  IN  IF times = <<>> THEN None
      ELSE Some(Fraction(SumOf(times, "response_time"), Len(rs)))

get_average_response_time(rs) ==
  LET times == ValidResults(rs, "response_time")
  IN  IF times = <<>> THEN None
      ELSE Some(Fraction(SumOf(times, "response_time"), Len(times)))

get_most_token_efficient(rs) ==
  LET valid_results == ValidResults(rs, "total_tokens")
  IN  IF valid_results = <<>> THEN None
      ELSE Some(MinBy(valid_results, "total_tokens").model)

get_least_expensive(rs) ==
  LET valid_results == ValidResults(rs, "estimated_cost")
  IN  IF valid_results = <<>> THEN None
      ELSE Some(MinBy(valid_results, "estimated_cost").model)

\* a total that is None as soon as one result has no cost
get_total_cost_all_or_nothing(rs) ==
  LET costs == ValidResults(rs, "estimated_cost")
  IN  IF Len(costs) < Len(rs) \/ costs = <<>> THEN None
      ELSE Some(SumOf(costs, "estimated_cost"))

get_total_cost(rs) ==
  LET costs == ValidResults(rs, "estimated_cost")
  IN  IF costs = <<>> THEN None ELSE Some(SumOf(costs, "estimated_cost"))

\* (successful / len(self.results)) * 100, and 0.0 for an empty list
get_success_rate(rs) ==
  IF rs = <<>> THEN Fraction(0, 1)
  ELSE Fraction(Len(SelectSeq(rs, NoError)) * 100, Len(rs))

\* a completion with content and complete usage
UsageResponse ==
  [choices |-> <<Choice(Some("Test response"))>>,
   usage |-> Some(Usage(Some(10), Some(5), Some(15)))]

\* Results get_model_response builds: completions of two priced models in the
\* same time, a slower completion of a model without price, a failure with
\* and one without a message, and a streamed response.
ResultSamples ==
  {CompletionResponse("gpt-4o", UsageResponse, 1),
   CompletionResponse("gpt-4o-mini", UsageResponse, 1),
   CompletionResponse("unknown-model", UsageResponse, 2),
   ExceptResponse("gpt-4o", "API connection error"),
   ExceptResponse("gpt-4o-mini", ""),
   StreamResponse("gpt-4o", "ab", 3)}

ResultLists == SeqsUpTo(ResultSamples, MaxResults)

Methods ==
  {"get_fastest_model", "get_slowest_model", "get_average_response_time",
   "get_most_token_efficient", "get_least_expensive", "get_total_cost",
   "get_success_rate"}

\* ComparisonAnalytics(results): self.results = results
AnalyticsInit ==
  /\ Idle
  /\ validation = None
  /\ costing = None
  /\ self_results \in ResultLists
  /\ returned = [m \in Methods |-> None]
  /\ recalled = FALSE
  /\ NoStartup

\* A method returns value: no method assigns self.results or changes a result.
MethodReturns(m, value) ==
  /\ DOMAIN returned = Methods
  /\ returned' = [returned EXCEPT ![m] = Some(value)]
  /\ recalled' = (recalled \/ IsSet(returned[m]))
  /\ UNCHANGED <<impl, pc, inputs, task, legacy, output, raised, validation,
                 costing, startup>>

\* a get_fastest_model that drops the other results from self.results
GetFastestModelKeepingValid ==
  /\ MethodReturns("get_fastest_model", get_fastest_model(self_results))
  /\ self_results' = ValidResults(self_results, "response_time")

GetFastestModel ==
  /\ MethodReturns("get_fastest_model", get_fastest_model(self_results))
  /\ UNCHANGED self_results

GetSlowestModel ==
  /\ MethodReturns("get_slowest_model", get_slowest_model(self_results))
  /\ UNCHANGED self_results

GetAverageResponseTime ==
  /\ MethodReturns("get_average_response_time",
                   get_average_response_time(self_results))
  /\ UNCHANGED self_results

GetMostTokenEfficient ==
  /\ MethodReturns("get_most_token_efficient",
                   get_most_token_efficient(self_results))
  /\ UNCHANGED self_results

GetLeastExpensive ==
  /\ MethodReturns("get_least_expensive", get_least_expensive(self_results))
  /\ UNCHANGED self_results

GetTotalCost ==
  /\ MethodReturns("get_total_cost", get_total_cost(self_results))
  /\ UNCHANGED self_results

GetSuccessRate ==
  /\ MethodReturns("get_success_rate", get_success_rate(self_results))
  /\ UNCHANGED self_results

AnalyticsNext ==
  \/ GetFastestModel
  \/ GetSlowestModel
  \/ GetAverageResponseTime
  \/ GetMostTokenEfficient
  \/ GetLeastExpensive
  \/ GetTotalCost
  \/ GetSuccessRate

AnalyticsSpec == AnalyticsInit /\ [][AnalyticsNext]_vars

(***************************************************************************)
(* config.py: Config                                                        *)
(***************************************************************************)
\* Python values as a config file holds them; floats are kept in tenths.
PyInt(n) == [type |-> "int", int |-> n]

PyFloat(tenths) == [type |-> "float", tenths |-> tenths]

PyStr(str) == [type |-> "str", str |-> str]

PyBool(b) == [type |-> "bool", bool |-> b]

PyNone == [type |-> "none"]

PyList(list) == [type |-> "list", list |-> list]

\* What a conversion gives: the value, or the exception it raises.
Value(v) == [raised |-> None, value |-> v]

Raises(type) == [raised |-> Some(type), value |-> PyNone]

\* float(v)
ToFloat(v) ==
  CASE v.type = "int" -> Value(PyFloat(10 * v.int))
    [] v.type = "float" -> Value(v)
    [] v.type = "bool" -> Value(PyFloat(IF v.bool THEN 10 ELSE 0))
    [] v.type = "str" -> Raises("ValueError")
    [] OTHER -> Raises("TypeError")

\* int(v): a float is truncated
ToInt(v) ==
  CASE v.type = "int" -> Value(v)
    [] v.type = "float" -> Value(PyInt(v.tenths \div 10))
    [] v.type = "bool" -> Value(PyInt(IF v.bool THEN 1 ELSE 0))
    [] v.type = "str" -> Raises("ValueError")
    [] OTHER -> Raises("TypeError")

\* bool(v): the truth value
ToBool(v) ==
  CASE v.type = "int" -> Value(PyBool(v.int # 0))
    [] v.type = "float" -> Value(PyBool(v.tenths # 0))
    [] v.type = "bool" -> Value(v)
    [] v.type = "str" -> Value(PyBool(v.str # ""))
    [] v.type = "list" -> Value(PyBool(v.list # <<>>))
    [] OTHER -> Value(PyBool(FALSE))

\* The settings, in the order in which _parse_config reads them.
ConfigKeys ==
  << "models", "temperature", "system_prompt", "max_retries", "retry_delay",
     "timeout", "stream" >>

\* the conversion _parse_config applies to the value of a key
Converted(key, v) ==
  CASE key \in {"temperature", "retry_delay"} -> ToFloat(v)
    [] key \in {"max_retries", "timeout"} -> ToInt(v)
    [] key = "stream" -> ToBool(v)
    [] OTHER -> Value(v)

\* The attributes Config.__init__ assigns.
DefaultAttributes ==
  [models |-> PyList(<<>>), temperature |-> PyFloat(7), system_prompt |-> PyNone,
   max_retries |-> PyInt(3), retry_delay |-> PyFloat(10), timeout |-> PyInt(120),
   stream |-> PyBool(FALSE)]

RECURSIVE ParseFrom(_, _, _)
\* _parse_config from key number k on: the attributes, or the exception of the
\* first conversion that fails
ParseFrom(attrs, data, k) ==
  IF k > Len(ConfigKeys) THEN Value(attrs)
  ELSE LET key == ConfigKeys[k]
       IN  IF key \notin DOMAIN data THEN ParseFrom(attrs, data, k + 1)
           ELSE IF IsSet(Converted(key, data[key]).raised)
                THEN Converted(key, data[key])
                ELSE ParseFrom([attrs EXCEPT ![key] = Converted(key, data[key]).value],
                               data, k + 1)

\* _parse_config(data): "models" in None raises TypeError
ParseConfig(attrs, data) ==
  IF data = None THEN Raises("TypeError") ELSE ParseFrom(attrs, data[1], 1)

\* A config file: whether it exists, its suffix, and what its text is: empty,
\* no valid YAML or JSON, or a mapping.
ConfigFile(exists, suffix, text, data) ==
  [exists |-> exists, suffix |-> suffix, text |-> text, data |-> data]

\* yaml.safe_load / json.load of the file: an empty YAML document is None,
\* an empty JSON file does not parse
Load(file) ==
  CASE file.text = "malformed" -> Raises("ParseError")
    [] file.text = "empty" ->
         IF file.suffix = ".json" THEN Raises("ParseError") ELSE Value(None)
    [] OTHER -> Value(Some(file.data))

\* a load_from_file that takes the suffix for granted
LoadFromFileAnySuffix(attrs, file) ==
  IF ~file.exists THEN Raises("FileNotFoundError")
  ELSE IF IsSet(Load(file).raised) THEN Load(file)
  ELSE ParseConfig(attrs, Load(file).value)

\* load_from_file: the attributes, or the exception raised
LoadFromFile(attrs, file) ==
  IF ~file.exists THEN Raises("FileNotFoundError")
  ELSE IF file.suffix \notin {".yaml", ".yml", ".json"} THEN Raises("ValueError")
  ELSE IF IsSet(Load(file).raised) THEN Load(file)
  ELSE ParseConfig(attrs, Load(file).value)

\* Config(config_path): the attributes of the new object, or the exception
NewConfig(file) ==
  IF file = None THEN Value(DefaultAttributes)
  ELSE LoadFromFile(DefaultAttributes, file[1])

\* The keys a file may hold: the seven settings and one that is none.
FileKeys == {ConfigKeys[k] : k \in 1..Len(ConfigKeys)} \cup {"verbose"}

\* A value of the type of the setting, different from the default.
PlainValue(key) ==
  CASE key = "models" -> PyList(<<"gpt-4o-mini">>)
    [] key = "temperature" -> PyFloat(9)
    [] key = "system_prompt" -> PyStr("You are a helpful assistant")
    [] key = "max_retries" -> PyInt(5)
    [] key = "retry_delay" -> PyFloat(20)
    [] key = "timeout" -> PyInt(180)
    [] OTHER -> PyBool(TRUE)

\* Mappings with any set of keys, and mappings whose value is of another type
\* than the setting or is the default of the setting.
Mappings ==
  {[k \in S |-> PlainValue(k)] : S \in SUBSET FileKeys}
    \cup {[k \in {"max_retries"} |-> PyFloat(27)],
          [k \in {"stream"} |-> PyStr("false")],
          [k \in {"temperature"} |-> PyStr("abc")],
          [k \in {"temperature"} |-> PyInt(1)],
          [k \in {"temperature"} |-> PyFloat(0)],
          [k \in {"timeout"} |-> PyNone],
          [k \in {"models"} |-> PyList(<<>>)]}

Suffixes == {".yaml", ".yml", ".json", ".txt", ".YAML", ""}

ConfigFiles ==
  {ConfigFile(TRUE, x, "mapping", d) : x \in Suffixes, d \in Mappings}
    \cup {ConfigFile(TRUE, x, t, <<>>) : x \in Suffixes, t \in {"empty", "malformed"}}
    \cup {ConfigFile(FALSE, x, "empty", <<>>) : x \in {".yaml", ".txt"}}

\* A call of Config(config_path) and what it gave.
ConfigCall(file, result) == [file |-> file, result |-> result]

ConfigInit ==
  /\ Idle
  /\ validation = None
  /\ costing = None
  /\ NoAnalytics
  /\ client = Client(3, 10, 120)
  /\ config \in {Some(ConfigCall(f, None)) :
                    f \in {None} \cup {Some(g) : g \in ConfigFiles}}
  /\ main = None

\* Config.__init__ with load_from_file and _parse_config
ConfigNew ==
  /\ IsSet(config)
  /\ config[1].result = None
  /\ config' = Some(ConfigCall(config[1].file, Some(NewConfig(config[1].file))))
  /\ UNCHANGED <<impl, pc, inputs, task, legacy, output, raised, direct, client,
                 main>>

ConfigNext == ConfigNew

ConfigSpec == ConfigInit /\ [][ConfigNext]_vars

(***************************************************************************)
(* analytics.py: ComparisonAnalytics.get_summary                            *)
(***************************************************************************)
\* next(r for r in self.results if r["model"] == model): the first result
\* that carries the name
FirstOf(rs, model) ==
  rs[CHOOSE i \in 1..Len(rs) :
       rs[i].model = model /\ \A j \in 1..(i - 1) : rs[j].model # model]

\* if name: the aggregate returned a name and the name is not empty
Named(name) == IsSet(name) /\ name[1] # ""

\* The value printed beside an aggregate: field of the first result with that
\* name; None when the aggregate gave no name and the line is left out.
Beside(rs, name, field) ==
  IF Named(name) THEN Some(FirstOf(rs, name[1])[field]) ELSE None

\* f"{value:.2f}" and f"{value:.6f}" raise TypeError for None
FormatRaises(printed) == IsSet(printed) /\ printed[1] = None

\* get_summary: the values printed beside the four models, or the TypeError of
\* the first float format that is given None; the token count is printed
\* without a format and does not raise
get_summary(rs) ==
  LET fastest_time == Beside(rs, get_fastest_model(rs), "response_time")
      slowest_time == Beside(rs, get_slowest_model(rs), "response_time")
      efficient_tokens == Beside(rs, get_most_token_efficient(rs), "total_tokens")
      cheapest_cost == Beside(rs, get_least_expensive(rs), "estimated_cost")
  IN  IF FormatRaises(fastest_time) \/ FormatRaises(slowest_time)
         \/ FormatRaises(cheapest_cost)
      THEN Raises("TypeError")
      ELSE Value([success_rate |-> get_success_rate(rs),
                  avg_time |-> get_average_response_time(rs),
                  fastest_time |-> fastest_time,
                  slowest_time |-> slowest_time,
                  efficient_tokens |-> efficient_tokens,
                  total_cost |-> get_total_cost(rs),
                  cheapest_cost |-> cheapest_cost])

\* ComparisonAnalytics(results), get_summary not called yet
SummaryInit ==
  /\ Idle
  /\ validation = None
  /\ costing = None
  /\ self_results \in ResultLists
  /\ returned = [m \in {"get_summary"} |-> None]
  /\ recalled = FALSE
  /\ NoStartup

\* get_summary returns or raises
GetSummary ==
  /\ DOMAIN returned = {"get_summary"}
  /\ returned' = [returned EXCEPT !["get_summary"] = Some(get_summary(self_results))]
  /\ recalled' = (recalled \/ IsSet(returned["get_summary"]))
  /\ UNCHANGED <<impl, pc, inputs, task, legacy, output, raised, validation,
                 costing, self_results, startup>>

SummaryNext == GetSummary

SummarySpec == SummaryInit /\ [][SummaryNext]_vars

(***************************************************************************)
(* cli.py: main                                                             *)
(***************************************************************************)
\* models.py: the lists as shipped
MODELS ==
  << "gpt-4o-mini", "gpt-3.5-turbo", "claude-3-5-sonnet-20241022",
     "gemini/gemini-1.5-flash" >>

CREATIVE_MODELS == << "gpt-4o", "claude-3-5-sonnet-20241022", "gemini/gemini-1.5-pro" >>

FAST_MODELS == << "gpt-4o-mini", "gpt-3.5-turbo", "gemini/gemini-1.5-flash" >>

CODING_MODELS == << "gpt-4o", "claude-3-5-sonnet-20241022" >>

\* DEFAULT_TEMPERATURE = 0.7, in tenths
DEFAULT_TEMPERATURE == 7

\* The module models as main sees it: the default list and the preset map.
ModelsModule(default, creative, fast, coding) ==
  [MODELS |-> default, creative |-> creative, fast |-> fast, coding |-> coding]

\* The parsed command line.
Args(prompt_, models_, preset, temperature, system_prompt_, output_, export_format, config_, create_config, stream_, table) ==
  [prompt |-> prompt_, models |-> models_, preset |-> preset,
   temperature |-> temperature, system_prompt |-> system_prompt_,
   output |-> output_, export_format |-> export_format, config |-> config_,
   create_config |-> create_config, stream |-> stream_, table |-> table]

\* config and config.models / config and config.temperature
Truthy(v) ==
  CASE v.type = "list" -> v.list # <<>>
    [] v.type = "float" -> v.tenths # 0
    [] v.type = "int" -> v.int # 0
    [] v.type = "str" -> v.str # ""
    [] v.type = "bool" -> v.bool
    [] OTHER -> FALSE

\* a selection that looks at the preset before the -m list
SelectModelsPresetFirst(args, cfg, module) ==
  IF IsSet(args.preset) THEN module[args.preset[1]]
  ELSE IF IsSet(args.models) THEN args.models[1]
  ELSE IF IsSet(cfg) /\ Truthy(cfg[1].models) THEN cfg[1].models.list
  ELSE module.MODELS

\* selected_models; cfg is the Config object or None
SelectModels(args, cfg, module) ==
  IF IsSet(args.models) THEN args.models[1]
  ELSE IF IsSet(args.preset) THEN module[args.preset[1]]
  ELSE IF IsSet(cfg) /\ Truthy(cfg[1].models) THEN cfg[1].models.list
  ELSE module.MODELS

\* temperature, in tenths
DetermineTemperature(args, cfg) ==
  IF IsSet(args.temperature) THEN args.temperature[1]
  ELSE IF IsSet(cfg) /\ Truthy(cfg[1].temperature) THEN cfg[1].temperature.tenths
  ELSE DEFAULT_TEMPERATURE

\* startup checks that do not look at the credential
StartupFailureWithoutKeyCheck(selected_models, temperature, api_key, sp) ==
  IF selected_models = <<>> THEN Some("no_models")
  ELSE IF ~(0 <= temperature /\ temperature <= 10) THEN Some("temperature")
  ELSE IF TruthyText(sp) /\ validate_prompt(sp[1], "system_prompt") # "ok"
       THEN Some(validate_prompt(sp[1], "system_prompt"))
  ELSE None

\* The check that makes main exit with code 1, None when all pass: the model
\* list, the temperature, os.getenv("LITELLM_API_KEY"), the system prompt.
StartupFailure(selected_models, temperature, api_key, sp) ==
  IF selected_models = <<>> THEN Some("no_models")
  ELSE IF ~(0 <= temperature /\ temperature <= 10) THEN Some("temperature")
  ELSE IF ~IsSet(api_key) \/ api_key[1] = "" THEN Some("api_key")
  ELSE IF TruthyText(sp) /\ validate_prompt(sp[1], "system_prompt") # "ok"
       THEN Some(validate_prompt(sp[1], "system_prompt"))
  ELSE None

RECURSIVE LastSegment(_, _)
\* output.split(".")[-1]: the text after the last dot, all of it without dot
LastSegment(str, k) ==
  IF k = 0 THEN str
  ELSE IF SubSeq(str, k, k) = "." THEN SubSeq(str, k + 1, Len(str))
  ELSE LastSegment(str, k - 1)

\* a detection that compares the extension as written
FormatOfExtensionCaseSensitive(output_) ==
  LET ext == LastSegment(output_, Len(output_))
  IN  IF ext = "json" THEN "json"
      ELSE IF ext = "csv" THEN "csv"
      ELSE IF ext \in {"md", "markdown"} THEN "markdown"
      ELSE "json"

\* the export format read from the name of the output file
FormatOfExtension(output_) ==
  LET ext == Lower(LastSegment(output_, Len(output_)))
  IN  IF ext = "json" THEN "json"
      ELSE IF ext = "csv" THEN "csv"
      ELSE IF ext \in {"md", "markdown"} THEN "markdown"
      ELSE "json"

\* export_format
DetermineExportFormat(args) ==
  IF ~IsSet(args.output) THEN None
  ELSE IF IsSet(args.export_format) THEN args.export_format
  ELSE Some(FormatOfExtension(args.output[1]))

\* main entered with the command line, the credential of the environment and
\* the module models; nothing was done yet.
NewMain(args, api_key, module) ==
  [args |-> args, api_key |-> api_key, module |-> module, pc |-> "start",
   selected_models |-> <<>>, temperature |-> DEFAULT_TEMPERATURE,
   export_format |-> None, compared |-> None, batch |-> None,
   progress |-> <<>>, results |-> None, line |-> None, comparisons |-> 0,
   rounds |-> 0, events |-> <<>>, exit |-> None]

\* sys.exit(code), the return of main (code 0) or an exception that leaves it
Exit(m, code, event) ==
  [m EXCEPT !.pc = "exited", !.exit = Some(code), !.events = Append(@, event)]

\* save_to_file(config_path), by the suffix of the path: the exception raised
\* or None
SaveToFile(suffix) ==
  IF suffix \in {".yaml", ".yml", ".json"} THEN None ELSE Some("ValueError")

\* main up to the dispatch: --create-config, the config file, the model list,
\* the temperature, the credential, the system prompt, the export format
MainStartup ==
  /\ IsSet(main)
  /\ main[1].pc = "start"
  /\ LET m == main[1]
         args == m.args
         call == IF IsSet(args.config) /\ ~IsSet(args.create_config)
                 THEN Some(ConfigCall(args.config, Some(NewConfig(args.config))))
                 ELSE None
         cfg == IF IsSet(call) /\ ~IsSet(call[1].result[1].raised)
                THEN Some(call[1].result[1].value) ELSE None
         selected_models == SelectModels(args, cfg, m.module)
         temperature == DetermineTemperature(args, cfg)
         failure == StartupFailure(selected_models, temperature, m.api_key,
                                   args.system_prompt)
     IN  /\ config' = call
         /\ main' = Some(
              IF IsSet(args.create_config)
              THEN IF IsSet(SaveToFile(args.create_config[1]))
                   THEN Exit(m, 1, SaveToFile(args.create_config[1])[1])
                   ELSE Exit(m, 0, "config_created")
              ELSE IF IsSet(call) /\ IsSet(call[1].result[1].raised)
                   THEN Exit(m, 1, "config_error")
              ELSE IF IsSet(failure)
                   THEN Exit([m EXCEPT !.selected_models = selected_models,
                                       !.temperature = temperature],
                             1, failure[1])
              ELSE [m EXCEPT
                      !.selected_models = selected_models,
                      !.temperature = temperature,
                      !.export_format = DetermineExportFormat(args),
                      !.pc = IF TruthyText(args.prompt) THEN "single"
                             ELSE "interactive",
                      !.events = IF ~TruthyText(args.prompt) /\ IsSet(args.output)
                                 THEN <<"export_warning">> ELSE <<>>])
  /\ UNCHANGED <<impl, pc, inputs, task, legacy, output, raised, direct, client>>

\* the client compare_models_async builds from the config
ClientOf(cfg) ==
  IF IsSet(cfg) /\ IsSet(cfg[1].result) /\ ~IsSet(cfg[1].result[1].raised)
  THEN Client(cfg[1].result[1].value.max_retries.int,
              cfg[1].result[1].value.retry_delay.tenths,
              cfg[1].result[1].value.timeout.int)
  ELSE Client(3, 10, 120)

\* How the calls of a batch end: all succeed, all fail, or the first fails
\* and the others succeed.
BatchOutcomes == {"ok", "failed", "first_failed"}

\* What a comparison returns.
ResultsOf(ms, outcome) ==
  [i \in 1..Len(ms) |->
     IF outcome = "failed" \/ (outcome = "first_failed" /\ i = 1)
     THEN ExceptResponse(ms[i], "API connection error")
     ELSE CompletionResponse(ms[i], UsageResponse, i)]

\* The arguments compare_models_async hands to client.compare_models.
Batch(ms, temperature, sp, st) ==
  [models |-> ms, temperature |-> temperature, system_prompt |-> sp, stream |-> st]

\* the progress lines compare_models_async prints after the batch returned
ProgressOf(rs) ==
  [i \in 1..Len(rs) |-> Notification(i, Len(rs), rs[i].model, rs[i])]

\* compare_models_async has returned rs for the batch b
Compared(m, b, rs) ==
  [m EXCEPT !.results = Some(rs), !.batch = Some(b), !.progress = ProgressOf(rs)]

\* single-prompt mode: asyncio.run(compare_models_async(...)); the ValueError
\* compare_models raises for an invalid prompt leaves main
MainCompare(outcome) ==
  /\ IsSet(main)
  /\ main[1].pc = "single"
  /\ client' = ClientOf(config)
  /\ main' = Some(
       LET m == [main[1] EXCEPT !.comparisons = @ + 1,
                                !.compared = Some(main[1].selected_models),
                                !.events = Append(@, "compare")]
           b == Batch(m.selected_models, m.temperature, m.args.system_prompt,
                      m.args.stream)
       IN  IF IsSet(ValidateInputs(m.args.prompt[1], m.args.system_prompt))
           THEN Exit([m EXCEPT !.batch = Some(b)], 1, "ValueError")
           ELSE [Compared(m, b, ResultsOf(m.selected_models, outcome))
                   EXCEPT !.pc = "compared"])
  /\ UNCHANGED <<impl, pc, inputs, task, legacy, output, raised, direct, config>>

\* the table and the results are printed, then the analytics summary, whose
\* TypeError leaves main; without --output main returns
MainDisplay ==
  /\ IsSet(main)
  /\ main[1].pc = "compared"
  /\ main' = Some(
       LET m == [main[1] EXCEPT !.events = Append(@, "display")]
       IN  IF IsSet(get_summary(m.results[1]).raised)
           THEN Exit(m, 1, get_summary(m.results[1]).raised[1])
           ELSE IF IsSet(m.args.output) THEN [m EXCEPT !.pc = "displayed"]
           ELSE [m EXCEPT !.pc = "exited", !.exit = Some(0)])
  /\ UNCHANGED <<impl, pc, inputs, task, legacy, output, raised, direct, client,
                 config>>

\* What export_results does: it writes the file or raises.
ExportOutcomes == {"ok", "PermissionError", "OSError"}

\* an export whose failure leaves main
MainExportFailureExits(outcome) ==
  /\ IsSet(main)
  /\ main[1].pc = "displayed"
  /\ main' = Some(
       LET m == [main[1] EXCEPT !.events = Append(@, "export")]
       IN  IF outcome = "ok" THEN Exit(m, 0, "export_success")
           ELSE Exit(m, 1, "export_error"))
  /\ UNCHANGED <<impl, pc, inputs, task, legacy, output, raised, direct, client,
                 config>>

\* ResultExporter.export_results in the try block of main: success or the
\* error is displayed, then main returns
MainExport(outcome) ==
  /\ IsSet(main)
  /\ main[1].pc = "displayed"
  /\ main' = Some(
       LET m == [main[1] EXCEPT !.events = Append(@, "export")]
       IN  IF outcome = "ok" THEN Exit(m, 0, "export_success")
           ELSE Exit(m, 0, "export_error"))
  /\ UNCHANGED <<impl, pc, inputs, task, legacy, output, raised, direct, client,
                 config>>

\* What input() gives in interactive mode: a line (kind "line": the text raw
\* followed by more further letters), Ctrl-C ("interrupt") or the end of the
\* input ("eof").
Line(kind, raw, more) == [kind |-> kind, raw |-> raw, more |-> more]

\* a blank line, three quit commands, a valid prompt, a prompt that is too
\* long, Ctrl-C, the end of the input
Lines ==
  {Line("line", "   ", 0), Line("line", " QUIT ", 0), Line("line", "Exit", 0),
   Line("line", "q", 0), Line("line", "quit now", 0),
   Line("line", "quit", MAX_PROMPT_LENGTH), Line("interrupt", "", 0),
   Line("eof", "", 0)}

RECURSIVE StripLeft(_)
\* str.lstrip()
StripLeft(str) ==
  IF Len(str) > 0 /\ SubSeq(str, 1, 1) = " " THEN StripLeft(SubSeq(str, 2, Len(str)))
  ELSE str

RECURSIVE StripRight(_)
\* str.rstrip()
StripRight(str) ==
  IF Len(str) > 0 /\ SubSeq(str, Len(str), Len(str)) = " "
  THEN StripRight(SubSeq(str, 1, Len(str) - 1))
  ELSE str

\* str.strip()
Strip(str) == StripRight(StripLeft(str))

\* the length of a prompt that is not stripped
PromptLengthUnstripped(line) == Len(line.raw) + line.more

\* the length of the prompt read from the line
PromptLength(line) ==
  IF Len(Strip(line.raw)) = 0 THEN 0 ELSE Len(Strip(line.raw)) + line.more

\* a comparison with the quit words as typed
IsQuitCaseSensitive(line) ==
  line.more = 0 /\ Strip(line.raw) \in {"quit", "exit", "q"}

\* prompt.lower() in ["quit", "exit", "q"]
IsQuit(line) ==
  line.more = 0 /\ Lower(Strip(line.raw)) \in {"quit", "exit", "q"}

\* one iteration of the loop of interactive_mode_async
InteractivePrompt(line, outcome) ==
  /\ IsSet(main)
  /\ main[1].pc = "interactive"
  /\ main[1].rounds < MaxRounds
  /\ LET m == [main[1] EXCEPT !.rounds = @ + 1, !.line = Some(line)]
         p == Text(PromptLength(line), FALSE)
         b == Batch(m.selected_models, m.temperature, m.args.system_prompt, FALSE)
         rs == ResultsOf(m.selected_models, outcome)
         dispatched == /\ line.kind = "line"
                       /\ PromptLength(line) > 0
                       /\ ~IsQuit(line)
                       /\ validate_prompt(p, "prompt") = "ok"
     IN  /\ main' = Some(
              IF line.kind = "interrupt" THEN Exit(m, 0, "goodbye")
              ELSE IF line.kind = "eof"
                   THEN [m EXCEPT !.events = Append(@, "error")]
              ELSE IF PromptLength(line) = 0 THEN m
              ELSE IF IsQuit(line) THEN Exit(m, 0, "goodbye")
              ELSE IF validate_prompt(p, "prompt") # "ok"
                   THEN [m EXCEPT !.events = Append(@, "error")]
              ELSE IF IsSet(ValidateInputs(p, m.args.system_prompt))
                   THEN [m EXCEPT !.comparisons = @ + 1,
                                  !.compared = Some(m.selected_models),
                                  !.batch = Some(b),
                                  !.events = @ \o <<"compare", "error">>]
              ELSE [Compared(m, b, rs) EXCEPT
                      !.comparisons = @ + 1,
                      !.compared = Some(m.selected_models),
                      !.events = @ \o (IF IsSet(get_summary(rs).raised)
                                       THEN <<"compare", "display", "error">>
                                       ELSE <<"compare", "display">>)])
         /\ client' = IF dispatched THEN ClientOf(config) ELSE client
  /\ UNCHANGED <<impl, pc, inputs, task, legacy, output, raised, direct, config>>

\* The module models as shipped, and one whose lists were emptied.
Modules ==
  {ModelsModule(MODELS, CREATIVE_MODELS, FAST_MODELS, CODING_MODELS),
   ModelsModule(<<>>, <<>>, <<>>, <<>>)}

\* Config files given with --config: a missing one, one with a suffix that is
\* not supported, an empty one, and mappings with and without models and
\* temperature.
MainConfigFiles ==
  {ConfigFile(FALSE, ".yaml", "empty", <<>>),
   ConfigFile(TRUE, ".txt", "mapping", [k \in {"models"} |-> PlainValue(k)]),
   ConfigFile(TRUE, ".YAML", "mapping", [k \in {"models"} |-> PlainValue(k)]),
   ConfigFile(TRUE, ".yaml", "empty", <<>>),
   ConfigFile(TRUE, ".yml", "mapping", [k \in {"max_retries", "timeout"} |-> PlainValue(k)]),
   ConfigFile(TRUE, ".json", "mapping", [k \in {"models", "temperature"} |-> PlainValue(k)]),
   ConfigFile(TRUE, ".yaml", "mapping", [k \in {"models"} |-> PyList(<<>>)]),
   ConfigFile(TRUE, ".yaml", "mapping", [k \in {"temperature"} |-> PyFloat(0)]),
   ConfigFile(TRUE, ".yaml", "mapping", [k \in {"temperature"} |-> PyFloat(15)]),
   ConfigFile(TRUE, ".yaml", "mapping", [k \in {"system_prompt", "stream"} |-> PlainValue(k)])}

\* Names given with --output.
Outputs ==
  {"results.json", "results.csv", "results.CSV", "notes.md", "notes.Markdown",
   "results.txt", "results", "archive.csv.json", "csv", "md", "json.csv"}

ExportFormats == {"json", "csv", "markdown"}

\* Command lines with a prompt that differ in what the startup checks look at.
StartupArgs ==
  {Args(Some(p), m, pre, t, sp, None, None, c, None, FALSE, FALSE) :
     p \in {Text(11, FALSE), Text(50001, FALSE)},
     m \in {None, Some(<<"model-b", "model-a">>), Some(<<"gpt-4o", "gpt-4o">>)},
     pre \in {None, Some("creative")},
     t \in {None, Some(0), Some(10), Some(11), Some(0 - 1)},
     sp \in {None, Some(Text(0, FALSE)), Some(Text(13, FALSE)), Some(Text(10001, FALSE))},
     c \in {None} \cup {Some(f) : f \in MainConfigFiles}}

\* Command lines with a prompt that differ in the output file and the export
\* format, and the same with --create-config.
ExportArgs ==
  {Args(Some(Text(11, FALSE)), None, None, None, None, Some(o), f, None, cc, FALSE, FALSE) :
     o \in Outputs,
     f \in {None} \cup {Some(x) : x \in ExportFormats},
     cc \in {None, Some(".yaml"), Some(".txt")}}

\* Config files of the interactive sessions: with models and temperature,
\* with system_prompt and stream, with temperature 0.
InteractiveConfigFiles ==
  {f \in MainConfigFiles :
     /\ f.exists
     /\ f.text = "mapping"
     /\ \/ DOMAIN f.data = {"models", "temperature"}
        \/ DOMAIN f.data = {"system_prompt", "stream"}
        \/ f.data = [k \in {"temperature"} |-> PyFloat(0)]}

\* Command lines without a prompt, which lead to interactive mode.
InteractiveArgs ==
  {Args(None, m, None, t, sp, o, None, c, None, FALSE, FALSE) :
     m \in {None, Some(<<"gpt-4o", "gpt-4o">>)},
     t \in {None, Some(0)},
     sp \in {None, Some(Text(13, FALSE))},
     o \in {None, Some("csv")},
     c \in {None} \cup {Some(f) : f \in InteractiveConfigFiles}}

\* What os.getenv("LITELLM_API_KEY") gives.
ApiKeys == {None, Some(""), Some("fake_api_key")}

MainInit ==
  /\ Idle
  /\ validation = None
  /\ costing = None
  /\ NoAnalytics
  /\ client = Client(3, 10, 120)
  /\ config = None
  /\ main \in {Some(NewMain(a, k, mod)) :
                  a \in StartupArgs \cup ExportArgs \cup InteractiveArgs,
                  k \in ApiKeys, mod \in Modules}

MainNext ==
  \/ MainStartup
  \/ \E outcome \in BatchOutcomes : MainCompare(outcome)
  \/ MainDisplay
  \/ \E outcome \in ExportOutcomes : MainExport(outcome)
  \/ \E line \in Lines, outcome \in BatchOutcomes : InteractivePrompt(line, outcome)

MainSpec == MainInit /\ [][MainNext]_vars

(***************************************************************************)
(* Properties                                                              *)
(***************************************************************************)
Returned == pc = "returned" /\ IsSet(output)

\* The inputs validation must reject, written out: an empty, too long or NUL
\* holding prompt, or a given system prompt that is too long or holds a NUL.
InvalidInputs ==
  \/ prompt.length = 0
  \/ prompt.length > 50000
  \/ prompt.hasNul
  \/ /\ IsSet(system_prompt)
     /\ system_prompt[1].length > 0
     /\ system_prompt[1].length > 10000 \/ system_prompt[1].hasNul

RECURSIVE SumAttempts(_, _)
\* the remote completion calls made so far by the calls t[i..]
SumAttempts(t, i) ==
  IF i > Len(t) THEN 0 ELSE t[i].attempts + SumAttempts(t, i + 1)

RemoteCalls == SumAttempts(task, 1)

\* C1: the list compare_models returns has one entry per requested model, and
\* entry i carries models[i], whatever the order in which the calls finished.
C1_OrderPreserved ==
  Returned =>
    /\ Len(output[1]) = Len(models)
    /\ \A i \in 1..Len(models) : output[1][i].model = models[i]

\* C1 witness: a batch of two different models has returned and the call of
\* the second model took less time than the call of the first.
C1_Witness ==
  /\ Returned
  /\ impl = "api_client"
  /\ Len(models) = 2
  /\ models[1] # models[2]
  /\ task[2].elapsed < task[1].elapsed

\* C3: when a batch has returned every model had its call attempted, a model
\* whose remote call failed has a failure result, a model whose remote call
\* returned a completion has the success result with that completion's
\* content, and compare_models raises only before any call was made.
C3_NoPartialCancellation ==
  /\ Returned =>
       /\ Len(output[1]) = Len(models)
       /\ Len(task) = Len(models)
       /\ \A i \in 1..Len(models) :
            /\ task[i].attempts >= 1
            /\ task[i].last = "raised" =>
                 IsSet(output[1][i].error) /\ ~IsSet(output[1][i].response)
            /\ (task[i].last = "returned" /\ ~stream
                  /\ Len(task[i].reply[1].choices) > 0) =>
                 /\ ~IsSet(output[1][i].error)
                 /\ output[1][i].response =
                      task[i].reply[1].choices[1].message.content
            /\ (task[i].last = "returned" /\ stream
                  /\ ~IsSet(output[1][i].error)) =>
                 output[1][i].response = Some(task[i].full_response)
  /\ pc \in {"raised", "exited"} => RemoteCalls = 0 /\ task = <<>>

\* C3 witness: a batch has returned in which the remote call of one model
\* failed and the call of another model succeeded.
C3_Witness ==
  /\ Returned
  /\ \E i, j \in Tasks :
       /\ task[i].last = "raised"
       /\ IsSet(output[1][i].error)
       /\ task[j].last = "returned"
       /\ ~IsSet(output[1][j].error)

\* C4: when the prompt or the given system prompt is invalid no remote call
\* is made for any model, and the asyncio compare_models raises the
\* validation error.
C4_ValidationBeforeCalls ==
  (pc # "idle" /\ InvalidInputs) =>
    /\ RemoteCalls = 0
    /\ task = <<>>
    /\ pc \in {"raised", "exited"}
    /\ impl = "api_client" =>
         /\ pc = "raised"
         /\ IsSet(raised)
         /\ raised[1].type = "ValueError"
         /\ raised[1].error \in {"empty", "too_long", "null_bytes"}

\* C4 witness: the asyncio compare_models raised because of the system prompt.
C4_Witness ==
  /\ impl = "api_client"
  /\ pc = "raised"
  /\ IsSet(raised)
  /\ raised[1].prompt_type = "system_prompt"
  /\ Len(models) > 0

\* C2: every result of the asyncio get_model_response has exactly one of
\* response and error set.
C2_ExactlyOneOfResponseError ==
  \A i \in Tasks :
    (impl = "api_client" /\ IsDone(task[i])) =>
      \/ IsSet(task[i].result[1].response) /\ ~IsSet(task[i].result[1].error)
      \/ ~IsSet(task[i].result[1].response) /\ IsSet(task[i].result[1].error)

\* C5: the number of remote calls of one get_model_response only grows by
\* one at a time, never beyond 3, and beyond the first only when the previous
\* attempt raised.
C5_AtMostThreeAttempts ==
  [][\A i \in (DOMAIN task) \cap (DOMAIN task') :
       task'[i].attempts # task[i].attempts =>
         /\ task'[i].attempts = task[i].attempts + 1
         /\ task'[i].attempts <= 3
         /\ task[i].attempts = 0 \/ task[i].last = "raised"]_vars

\* C5 witness: a call of the asyncio client succeeded at its third attempt.
C5_Witness ==
  /\ impl = "api_client"
  /\ Len(task) = 1
  /\ IsDone(task[1])
  /\ task[1].attempts = 3
  /\ task[1].last = "returned"
  /\ ~IsSet(task[1].result[1].error)

\* C6: when every attempt of a call raised, the result is a failure whose
\* error is the string of the exception of the last attempt; the asyncio
\* client has then made 3 attempts.
C6_FinalExceptionReported ==
  \A i \in Tasks :
    (IsDone(task[i]) /\ task[i].last = "raised") =>
      /\ Len(task[i].excs) = task[i].attempts
      /\ impl = "api_client" => task[i].attempts = 3
      /\ task[i].result[1].error = Some(task[i].excs[Len(task[i].excs)])
      /\ ~IsSet(task[i].result[1].response)

\* C6 witness: three attempts raised and the first exception differs from the
\* last.
C6_Witness ==
  /\ impl = "api_client"
  /\ Len(task) = 1
  /\ IsDone(task[1])
  /\ Len(task[1].excs) = 3
  /\ task[1].excs[1] # task[1].excs[3]

MetricFields == {"response", "response_time", "prompt_tokens",
                 "completion_tokens", "total_tokens"}

\* C7: a result whose error is set has no response and no metric, wherever
\* the exception was raised.
C7_FailureHasNoMetrics ==
  \A i \in Tasks :
    (IsDone(task[i]) /\ IsSet(task[i].result[1].error)) =>
      /\ MetricFields \subseteq DOMAIN task[i].result[1]
      /\ impl = "api_client" => "estimated_cost" \in DOMAIN task[i].result[1]
      /\ \A f \in (DOMAIN task[i].result[1]) \ {"model", "error"} :
           task[i].result[1][f] = None

\* C7 witness: the asyncio call failed after the remote call had returned a
\* completion that carried usage.
C7_Witness ==
  /\ impl = "api_client"
  /\ Len(task) = 1
  /\ IsDone(task[1])
  /\ IsSet(task[1].result[1].error)
  /\ task[1].last = "returned"
  /\ IsSet(task[1].reply)
  /\ IsSet(task[1].reply[1].usage)

\* Model names and token counts for which estimate_cost is evaluated.
CostModelNames == CallModels \cup {MODEL_COSTS[k].name : k \in 1..Len(MODEL_COSTS)}

TokenCounts == {0, 5, 1000}

\* C8: a result of the asyncio client has estimated_cost set only if both
\* prompt_tokens and completion_tokens are set, and estimate_cost is None
\* whenever a token count is None, for every model.
C8_CostOnlyWithTokens ==
  /\ \A i \in Tasks :
       (impl = "api_client" /\ IsDone(task[i])
          /\ IsSet(task[i].result[1].estimated_cost)) =>
         /\ IsSet(task[i].result[1].prompt_tokens)
         /\ IsSet(task[i].result[1].completion_tokens)
  /\ \A m \in CostModelNames, n \in TokenCounts :
       /\ estimate_cost(m, None, Some(n)) = None
       /\ estimate_cost(m, Some(n), None) = None
       /\ estimate_cost(m, None, None) = None

\* C8 witness: a priced model returned usage without a prompt token count and
\* the result has no cost.
C8_Witness ==
  /\ impl = "api_client"
  /\ Len(task) = 1
  /\ IsDone(task[1])
  /\ task[1].model = "gpt-4o"
  /\ ~IsSet(task[1].result[1].error)
  /\ IsSet(task[1].result[1].completion_tokens)
  /\ ~IsSet(task[1].result[1].prompt_tokens)
  /\ ~IsSet(task[1].result[1].estimated_cost)

\* C9: compare_models returns only when every call of the batch has
\* finished, and a batch dispatched with valid inputs, whose remote calls all
\* return or raise, eventually returns.
C9_WaitsForAllAndReturns ==
  /\ [](Returned => (Len(task) = Len(models) /\ \A i \in Tasks : IsDone(task[i])))
  /\ (pc # "idle" /\ ~InvalidInputs) ~> (pc = "returned")

\* C10: compare_models called with valid inputs and an empty model list does
\* not raise, makes no remote call, and what it returns is the empty list.
C10_EmptyModelList ==
  (pc # "idle" /\ ~InvalidInputs /\ models = <<>>) =>
    /\ pc \in {"running", "returned"}
    /\ ~IsSet(raised)
    /\ RemoteCalls = 0
    /\ pc = "returned" => output = Some(<<>>)


\* The non-empty fragments of fs, joined in the order of fs.
RECURSIVE Concatenation(_)
Concatenation(fs) ==
  IF fs = <<>> THEN ""
  ELSE IF IsSet(Head(fs)) /\ Head(fs)[1] # ""
       THEN Head(fs)[1] \o Concatenation(Tail(fs))
       ELSE Concatenation(Tail(fs))

\* C11: in streaming mode a successful result carries the concatenation, in
\* arrival order, of the non-empty content fragments read from the stream, and
\* its three token counts and its estimated cost are absent, whatever the model.
C11_StreamConcatenation ==
  \A i \in Tasks :
    (impl = "api_client" /\ stream /\ IsDone(task[i]) /\ IsSet(task[i].result)
       /\ ~IsSet(task[i].result[1].error))
    => /\ task[i].result[1].response = Some(Concatenation(task[i].fragments))
       /\ task[i].result[1].prompt_tokens = None
       /\ task[i].result[1].completion_tokens = None
       /\ task[i].result[1].total_tokens = None
       /\ task[i].result[1].estimated_cost = None

\* a stream of two different non-empty fragments, for a model that has a price
C11_Witness ==
  /\ impl = "api_client" /\ stream /\ Len(task) = 1 /\ IsDone(task[1])
  /\ task[1].model = "gpt-4o"
  /\ task[1].fragments = <<Some("a"), Some("b")>>
  /\ IsSet(task[1].result)
  /\ task[1].result[1].response = Some("ab")
  /\ task[1].result[1].error = None

\* C13: every attempt of the remote call is given the list [system message,
\* user message] when a non-empty system prompt was passed and [user message]
\* alone otherwise: the system message comes first, and exactly one message
\* has the role user and it carries the prompt.
C13_MessagesOfEveryAttempt ==
  \A i \in Tasks :
    /\ Len(task[i].sent) = task[i].attempts
    /\ \A k \in 1..Len(task[i].sent) :
         LET ms == task[i].sent[k]
         IN  /\ IF IsSet(system_prompt) /\ system_prompt[1].length > 0
                THEN ms = <<[role |-> "system", content |-> system_prompt[1]],
                            [role |-> "user", content |-> prompt]>>
                ELSE ms = <<[role |-> "user", content |-> prompt]>>
             /\ \A j \in 1..Len(ms) : ms[j].role = "system" => j = 1
             /\ Cardinality({j \in 1..Len(ms) : ms[j].role = "user"}) = 1
             /\ \A j \in 1..Len(ms) :
                  ms[j].role = "user" => ms[j].content = prompt

\* three attempts were made with a system prompt, each with both messages
C13_Witness ==
  /\ impl = "api_client" /\ Len(task) = 1
  /\ system_prompt = Some(Text(13, FALSE))
  /\ task[1].attempts = 3
  /\ Len(task[1].sent) = 3
  /\ \A k \in 1..3 : Len(task[1].sent[k]) = 2 /\ task[1].sent[k][1].role = "system"

\* C12: validate_prompt fails with the empty-input error on an empty text,
\* otherwise with the too-long error when the text is longer than the limit of
\* its kind (50,000 for prompt, 10,000 for system_prompt), otherwise with the
\* invalid-character error when it holds a NUL byte, and succeeds otherwise;
\* a text of exactly the limit length without NUL is accepted.
C12_ValidationOrderAndLimits ==
  (IsSet(validation) /\ IsSet(validation[1].outcome)) =>
    LET text == validation[1].prompt
        kind == validation[1].prompt_type
        limit == IF kind = "prompt" THEN 50000 ELSE 10000
        value == validation[1].outcome[1].value
    IN  /\ text.length = 0 => value = "empty"
        /\ (text.length > 0 /\ text.length > limit) => value = "too_long"
        /\ (text.length > 0 /\ text.length <= limit /\ text.hasNul)
             => value = "null_bytes"
        /\ (text.length > 0 /\ text.length <= limit /\ ~text.hasNul)
             => value = "ok"
        /\ (text.length = limit /\ ~text.hasNul) => value = "ok"

\* a system prompt of exactly 10,000 characters was accepted
C12_Witness ==
  /\ IsSet(validation)
  /\ validation[1].prompt = Text(10000, FALSE)
  /\ validation[1].prompt_type = "system_prompt"
  /\ IsSet(validation[1].outcome)
  /\ validation[1].outcome[1].value = "ok"

\* estimate_cost was called with both token counts and has returned
CostEstimated ==
  /\ IsSet(costing)
  /\ IsSet(costing[1].value)
  /\ IsSet(costing[1].prompt_tokens)
  /\ IsSet(costing[1].completion_tokens)

\* the indices of the table keys that are a string prefix of name
PrefixKeys(name) ==
  {k \in 1..Len(MODEL_COSTS) :
     /\ Len(MODEL_COSTS[k].name) <= Len(name)
     /\ SubSeq(name, 1, Len(MODEL_COSTS[k].name)) = MODEL_COSTS[k].name}

\* C19: when the normalized model name is a key of the pricing table and both
\* token counts are present, estimate_cost returns prompt tokens times the
\* input rate plus completion tokens times the output rate of that very key,
\* also when an earlier key is a prefix of the name (gpt-4o-mini is not priced
\* as gpt-4o).
C19_ExactKeyPricing ==
  CostEstimated =>
    \A k \in 1..Len(MODEL_COSTS) :
      MODEL_COSTS[k].name = NormalizeModel(costing[1].model) =>
        costing[1].value[1] =
          Some(costing[1].prompt_tokens[1] * MODEL_COSTS[k].input
               + costing[1].completion_tokens[1] * MODEL_COSTS[k].output)

\* gpt-4o-mini with 1000 and 500 tokens costs 0.00045 USD, though gpt-4o is an
\* earlier key and a prefix of the name
C19_Witness ==
  /\ CostEstimated
  /\ costing[1].model = "gpt-4o-mini"
  /\ 1 \in PrefixKeys("gpt-4o-mini")
  /\ costing[1].prompt_tokens = Some(1000)
  /\ costing[1].completion_tokens = Some(500)
  /\ costing[1].value[1] = Some(450000)

\* C20: when the normalized model name is no key of the pricing table,
\* estimate_cost uses the rates of the first key, in table order, that is a
\* string prefix of the normalized name, and returns None when no key is a
\* prefix.
C20_FirstPrefixInTableOrder ==
  CostEstimated =>
    LET name == NormalizeModel(costing[1].model)
        hits == PrefixKeys(name)
    IN  (\A k \in 1..Len(MODEL_COSTS) : MODEL_COSTS[k].name # name) =>
          IF hits = {} THEN costing[1].value[1] = None
          ELSE \E k \in hits :
                 /\ \A j \in hits : k <= j
                 /\ costing[1].value[1] =
                      Some(costing[1].prompt_tokens[1] * MODEL_COSTS[k].input
                           + costing[1].completion_tokens[1] * MODEL_COSTS[k].output)

\* gpt-4-turbo-preview-0125 extends three keys (gpt-4-turbo, gpt-4-turbo-preview
\* and gpt-4) and is priced with the first of them in table order
C20_Witness ==
  /\ CostEstimated
  /\ costing[1].model = "gpt-4-turbo-preview-0125"
  /\ PrefixKeys("gpt-4-turbo-preview-0125") = {7, 9, 10}
  /\ costing[1].prompt_tokens = Some(1000)
  /\ costing[1].completion_tokens = Some(500)
  /\ costing[1].value[1] = Some(1000 * 10000 + 500 * 30000)

\* ComparisonAnalytics method m has returned
Called(m) == m \in DOMAIN returned /\ IsSet(returned[m])

\* the positions of the results without error that have the field
Present(field) ==
  {i \in 1..Len(self_results) :
     ~IsSet(self_results[i].error) /\ IsSet(self_results[i][field])}

FieldAt(i, field) == self_results[i][field][1]

RECURSIVE SumAt(_, _)
\* the sum of the field over the positions S
SumAt(S, field) ==
  IF S = {} THEN 0
  ELSE LET i == CHOOSE i \in S : TRUE
       IN  FieldAt(i, field) + SumAt(S \ {i}, field)

\* C14: get_fastest_model / get_slowest_model return the model of the result
\* with the least / greatest response_time among the results without error
\* that have a response_time, the first such result in list order on ties, and
\* None when there is no such result.
C14_FastestAndSlowest ==
  LET S == Present("response_time")
      t(i) == FieldAt(i, "response_time")
  IN  /\ Called("get_fastest_model") =>
           IF S = {} THEN returned["get_fastest_model"][1] = None
           ELSE \E i \in S :
                  /\ \A j \in S : t(i) <= t(j)
                  /\ \A j \in S : j < i => t(j) > t(i)
                  /\ returned["get_fastest_model"][1] = Some(self_results[i].model)
      /\ Called("get_slowest_model") =>
           IF S = {} THEN returned["get_slowest_model"][1] = None
           ELSE \E i \in S :
                  /\ \A j \in S : t(i) >= t(j)
                  /\ \A j \in S : j < i => t(j) < t(i)
                  /\ returned["get_slowest_model"][1] = Some(self_results[i].model)

\* two models answered in the same time, gpt-4o-mini first in the list, and a
\* third call failed: gpt-4o-mini is both the fastest and the slowest
C14_Witness ==
  /\ self_results = <<CompletionResponse("gpt-4o-mini", UsageResponse, 1),
                      CompletionResponse("gpt-4o", UsageResponse, 1),
                      ExceptResponse("gpt-4o", "API connection error")>>
  /\ Called("get_fastest_model") /\ Called("get_slowest_model")
  /\ returned["get_fastest_model"][1] = Some("gpt-4o-mini")
  /\ returned["get_slowest_model"][1] = Some("gpt-4o-mini")

\* C15: get_success_rate returns 100 * s / n, where n is the number of results
\* and s the number of results whose error is absent, and 0 for an empty list;
\* the value lies between 0 and 100 and every result whose error is set counts
\* as a failure.
C15_SuccessRate ==
  Called("get_success_rate") =>
    LET n == Len(self_results)
        s == Cardinality({i \in 1..n : ~IsSet(self_results[i].error)})
        rate == returned["get_success_rate"][1]
    IN  /\ rate.den > 0
        /\ 0 <= rate.num /\ rate.num <= 100 * rate.den
        /\ IF n = 0 THEN rate.num = 0
           ELSE rate.num * n = 100 * s * rate.den

\* C16: get_average_response_time returns the arithmetic mean of response_time
\* over the results without error that have a response_time, the ones fastest
\* and slowest use, so that it lies between the least and the greatest of these
\* times, and None when there is no such result.
C16_AverageResponseTime ==
  Called("get_average_response_time") =>
    LET S == Present("response_time")
        t(i) == FieldAt(i, "response_time")
        avg == returned["get_average_response_time"][1]
    IN  IF S = {} THEN avg = None
        ELSE /\ IsSet(avg)
             /\ avg[1].den > 0
             /\ avg[1].num * Cardinality(S) = SumAt(S, "response_time") * avg[1].den
             /\ \E i \in S : /\ \A j \in S : t(i) <= t(j)
                             /\ t(i) * avg[1].den <= avg[1].num
             /\ \E i \in S : /\ \A j \in S : t(i) >= t(j)
                             /\ avg[1].num <= t(i) * avg[1].den

\* calls of 1 and 2 seconds and a failed call: the mean is 3/2
C16_Witness ==
  /\ self_results = <<CompletionResponse("gpt-4o", UsageResponse, 1),
                      ExceptResponse("gpt-4o", "API connection error"),
                      CompletionResponse("unknown-model", UsageResponse, 2)>>
  /\ Called("get_average_response_time")
  /\ returned["get_average_response_time"][1] = Some([num |-> 3, den |-> 2])

\* C17: get_least_expensive returns the model of least estimated_cost and
\* get_total_cost the sum of estimated_cost, both over the results without
\* error that have a cost; failed results and results without cost do not
\* contribute, and both return None when there is no such result.
C17_LeastExpensiveAndTotal ==
  LET S == Present("estimated_cost")
      c(i) == FieldAt(i, "estimated_cost")
  IN  /\ Called("get_least_expensive") =>
           IF S = {} THEN returned["get_least_expensive"][1] = None
           ELSE \E i \in S :
                  /\ \A j \in S : c(i) <= c(j)
                  /\ returned["get_least_expensive"][1] = Some(self_results[i].model)
      /\ Called("get_total_cost") =>
           IF S = {} THEN returned["get_total_cost"][1] = None
           ELSE returned["get_total_cost"][1] = Some(SumAt(S, "estimated_cost"))

\* a failed call, a completion of a model without price and one of a priced
\* model: the priced one is the least expensive and its cost is the total
C17_Witness ==
  /\ self_results = <<ExceptResponse("gpt-4o", "API connection error"),
                      CompletionResponse("unknown-model", UsageResponse, 2),
                      CompletionResponse("gpt-4o-mini", UsageResponse, 1)>>
  /\ Called("get_least_expensive") /\ Called("get_total_cost")
  /\ returned["get_least_expensive"][1] = Some("gpt-4o-mini")
  /\ returned["get_total_cost"][1] = Some(4500)

\* C18: a call of an analytics method leaves the result list as it was and
\* every method called before would return the value it returned then,
\* whatever the order of the calls.
C18_AggregatesArePure ==
  [][/\ self_results' = self_results
     /\ \A m \in Methods : Called(m) => returned'[m] = returned[m]]_vars

\* each of the seven methods has returned, one of them twice, on a list of
\* three results
C18_Witness ==
  /\ Len(self_results) = 3
  /\ \A m \in Methods : Called(m)
  /\ recalled

\* C21: when the normalized model name is no key of the pricing table, the
\* entry used is the one with the longest key that is a prefix of the name (a
\* dated variant of gpt-4o-mini gets the gpt-4o-mini rates).
C21_LongestPrefixFallback ==
  CostEstimated =>
    LET name == NormalizeModel(costing[1].model)
        hits == PrefixKeys(name)
    IN  ((\A k \in 1..Len(MODEL_COSTS) : MODEL_COSTS[k].name # name)
           /\ hits # {}) =>
          \E k \in hits :
            /\ \A j \in hits : Len(MODEL_COSTS[k].name) >= Len(MODEL_COSTS[j].name)
            /\ costing[1].value[1] =
                 Some(costing[1].prompt_tokens[1] * MODEL_COSTS[k].input
                      + costing[1].completion_tokens[1] * MODEL_COSTS[k].output)

\* name, lower-cased, begins with one of the four provider prefixes
HasProviderPrefix(name) ==
  \E p \in {"openai/", "anthropic/", "google/", "azure/"} :
    /\ Len(p) <= Len(name)
    /\ SubSeq(Lower(name), 1, Len(p)) = p

\* C22 as stated: for every model name, putting a provider prefix in front of
\* it or writing it in capitals does not change the estimate.
C22_PrefixAndCaseInvariance ==
  (IsSet(costing) /\ IsSet(costing[1].value)) =>
    \A v \in Variants :
      IsSet(costing[1].variants[v]) =>
        costing[1].variants[v][1] = costing[1].value[1]

\* C22 amended: for every model name that does not itself begin with a
\* provider prefix, putting a provider prefix in front of it does not change
\* the estimate; writing any model name in capitals does not change it.
C22_PrefixAndCaseInvarianceAmended ==
  (IsSet(costing) /\ IsSet(costing[1].value)) =>
    \A v \in Variants :
      (IsSet(costing[1].variants[v])
         /\ (v = "upper" \/ ~HasProviderPrefix(costing[1].model))) =>
        costing[1].variants[v][1] = costing[1].value[1]

\* gpt-4o, azure/gpt-4o and GPT-4O with 1000 and 500 tokens all cost 0.0075 USD
C22_Witness ==
  /\ CostEstimated
  /\ costing[1].model = "gpt-4o"
  /\ costing[1].prompt_tokens = Some(1000)
  /\ costing[1].completion_tokens = Some(500)
  /\ costing[1].value[1] = Some(7500000)
  /\ costing[1].variants["azure/"] = Some(Some(7500000))
  /\ costing[1].variants["upper"] = Some(Some(7500000))

\* C29: a client constructed with max_retries = n never makes more retries of
\* one remote call than n, that is never more than n + 1 attempts.
C29_MaxRetriesBoundsRetries ==
  \A i \in Tasks :
    (impl = "api_client" /\ task[i].attempts >= 1) =>
      task[i].attempts - 1 <= client.max_retries

\* the assignments made so far to slot i of the thread-pool result list
WritesTo(i) == {k \in 1..Len(writes) : writes[k].index = i}

\* C30: in the thread-pool compare_models every call owns one slot: slot i is
\* assigned at most once, only by the call submitted for models[i] and with
\* that call's result, a slot is filled exactly when it was assigned, and on
\* return every slot was assigned exactly once; this holds for every order of
\* completion and with duplicate model names.
C30_OneSlotPerCall ==
  impl = "legacy" =>
    /\ \A k \in 1..Len(writes) :
         /\ writes[k].index = writes[k].future
         /\ writes[k].index \in 1..Len(models)
         /\ IsSet(writes[k].result)
         /\ writes[k].result = task[writes[k].future].result
         /\ writes[k].result[1].model = models[writes[k].index]
    /\ \A i \in 1..Len(results) :
         /\ Cardinality(WritesTo(i)) <= 1
         /\ IsSet(results[i]) <=> WritesTo(i) # {}
         /\ \A k \in WritesTo(i) : results[i] = writes[k].result
    /\ Returned =>
         /\ Len(results) = Len(models)
         /\ \A i \in 1..Len(models) :
              Cardinality(WritesTo(i)) = 1 /\ IsSet(results[i])

\* the same model was named twice, the second call finished first, and both
\* slots hold their own call's result, one a failure and one a success
C30_Witness ==
  /\ impl = "legacy" /\ Returned
  /\ models = <<"gpt-4o", "gpt-4o">>
  /\ Len(writes) = 2
  /\ writes[1].future = 2 /\ writes[2].future = 1
  /\ IsSet(results[1][1].error)
  /\ ~IsSet(results[2][1].error)

\* Config(path) has returned or raised for a file that exists, has a supported
\* suffix and is an empty YAML document or a mapping
ConfigFileLoaded ==
  /\ IsSet(config)
  /\ IsSet(config[1].file)
  /\ IsSet(config[1].result)
  /\ config[1].file[1].exists
  /\ config[1].file[1].suffix \in {".yaml", ".yml", ".json"}
  /\ \/ config[1].file[1].text = "mapping"
     \/ config[1].file[1].text = "empty" /\ config[1].file[1].suffix # ".json"

\* the value is of the type of the setting
OfSettingType(key, v) ==
  CASE key = "models" -> v.type = "list"
    [] key = "system_prompt" -> v.type \in {"str", "none"}
    [] key \in {"temperature", "retry_delay"} -> v.type = "float"
    [] key \in {"max_retries", "timeout"} -> v.type = "int"
    [] OTHER -> v.type = "bool"

\* C23: loading a config file sets the recognized keys the file holds and
\* leaves every other setting at its default (models [], temperature 0.7,
\* system_prompt None, max_retries 3, retry_delay 1.0, timeout 120, stream
\* False); unrecognized keys are ignored, and a file without any key gives the
\* default configuration.
C23_ConfigKeysAndDefaults ==
  ConfigFileLoaded =>
    LET file == config[1].file[1]
        result == config[1].result[1]
        data == IF file.text = "mapping" THEN file.data ELSE <<>>
        settings == {"models", "temperature", "system_prompt", "max_retries",
                     "retry_delay", "timeout", "stream"}
    IN  (\A k \in DOMAIN data \cap settings : OfSettingType(k, data[k])) =>
          /\ result.raised = None
          /\ \A k \in settings \cap DOMAIN data : result.value[k] = data[k]
          /\ "models" \notin DOMAIN data => result.value.models = PyList(<<>>)
          /\ "temperature" \notin DOMAIN data => result.value.temperature = PyFloat(7)
          /\ "system_prompt" \notin DOMAIN data => result.value.system_prompt = PyNone
          /\ "max_retries" \notin DOMAIN data => result.value.max_retries = PyInt(3)
          /\ "retry_delay" \notin DOMAIN data => result.value.retry_delay = PyFloat(10)
          /\ "timeout" \notin DOMAIN data => result.value.timeout = PyInt(120)
          /\ "stream" \notin DOMAIN data => result.value.stream = PyBool(FALSE)
          /\ DOMAIN result.value = settings

\* What happened in main so far.
Happened(e) == IsSet(main) /\ \E i \in DOMAIN main[1].events : main[1].events[i] = e

\* main went through the startup checks, or left at one of them.
StartupDone == IsSet(main) /\ main[1].pc # "start"

\* C24: a Config built from a path that does not exist fails with a
\* file-not-found error, one built from a path whose extension is not .yaml,
\* .yml or .json fails with an unsupported-format error (ValueError), and
\* whenever loading the config fails main has exited with code 1 and never
\* started a comparison.
C24_ConfigFailureIsFatal ==
  IsSet(config) =>
    LET file == config[1].file[1]
        loaded == config[1].result[1]
    IN  /\ ~file.exists => loaded.raised = Some("FileNotFoundError")
        /\ file.exists /\ file.suffix \notin {".yaml", ".yml", ".json"} =>
             loaded.raised = Some("ValueError")
        /\ IsSet(loaded.raised) =>
             /\ main[1].pc = "exited"
             /\ main[1].exit = Some(1)
             /\ main[1].comparisons = 0
             /\ ~Happened("compare")

C24_Witness ==
  /\ IsSet(config)
  /\ config[1].file[1].exists
  /\ config[1].file[1].suffix = ".txt"
  /\ config[1].result[1].raised = Some("ValueError")
  /\ main[1].exit = Some(1)

\* The list main selects by the precedence -m, --preset, config, MODELS.
ChosenByPrecedence ==
  LET m == main[1]
  IN  IF IsSet(m.args.models) THEN m.args.models[1]
      ELSE IF IsSet(m.args.preset) THEN m.module[m.args.preset[1]]
      ELSE IF /\ IsSet(config)
              /\ ~IsSet(config[1].result[1].raised)
              /\ config[1].result[1].value.models.list # <<>>
           THEN config[1].result[1].value.models.list
      ELSE m.module.MODELS

\* One of the startup checks of the claim fails for the command line and the
\* environment main was entered with.
StartupCheckFails ==
  LET m == main[1]
  IN  \/ ChosenByPrecedence = <<>>
      \/ m.temperature < 0
      \/ m.temperature > 10
      \/ m.api_key = None
      \/ /\ TruthyText(m.args.system_prompt)
         /\ validate_prompt(m.args.system_prompt[1], "system_prompt") # "ok"

\* C25: when the selected model list is empty, the temperature is outside
\* [0,1], the credential is not set or the system prompt is invalid, main has
\* exited with code 1 and no comparison was started.
C25_StartupChecksBeforeDispatch ==
  StartupDone /\ StartupCheckFails =>
    /\ main[1].pc = "exited"
    /\ main[1].exit = Some(1)
    /\ main[1].comparisons = 0
    /\ ~Happened("compare")

\* C25 as amended: without --create-config, when the selected model list is
\* empty, the temperature is outside [0,1], the credential is not set or the
\* system prompt is invalid, main has exited with code 1 and no comparison was
\* started; with --create-config main leaves before any check, with code 0
\* when the example config was written, and no comparison is started either.
C25_StartupChecksBeforeDispatchAmended ==
  StartupDone =>
    /\ ~IsSet(main[1].args.create_config) /\ StartupCheckFails =>
         /\ main[1].pc = "exited"
         /\ main[1].exit = Some(1)
         /\ main[1].comparisons = 0
         /\ ~Happened("compare")
    /\ IsSet(main[1].args.create_config) =>
         /\ main[1].pc = "exited"
         /\ main[1].exit = Some(IF Happened("config_created") THEN 0 ELSE 1)
         /\ Happened("config_created") <=>
              main[1].args.create_config[1] \in {".yaml", ".yml", ".json"}
         /\ main[1].comparisons = 0
         /\ ~Happened("compare")

C25_Witness ==
  /\ StartupDone
  /\ main[1].selected_models # <<>>
  /\ main[1].temperature \in 0..10
  /\ main[1].api_key = None
  /\ main[1].args.system_prompt = None
  /\ main[1].exit = Some(1)
  /\ Happened("api_key")

\* C26: the list a comparison is started with is the -m list when given, else
\* the preset list, else the non-empty list of the loaded config, else MODELS;
\* the results come for exactly these models, in this order.
C26_ModelListPrecedence ==
  IsSet(main) /\ main[1].comparisons > 0 =>
    /\ main[1].compared = Some(ChosenByPrecedence)
    /\ IsSet(main[1].results) =>
         /\ Len(main[1].results[1]) = Len(ChosenByPrecedence)
         /\ \A i \in 1..Len(ChosenByPrecedence) :
              main[1].results[1][i].model = ChosenByPrecedence[i]

C26_Witness ==
  /\ IsSet(main)
  /\ main[1].comparisons > 0
  /\ IsSet(main[1].args.models)
  /\ IsSet(main[1].args.preset)
  /\ IsSet(config)
  /\ IsSet(main[1].results)
  /\ main[1].compared = main[1].args.models

\* The name has a dot.
HasDot(str) == \E k \in 1..Len(str) : SubSeq(str, k, k) = "."

\* The format the extension of the name stands for: the text after the last
\* dot, without regard to case; JSON when it is none of the known ones or when
\* the name has no extension.
FormatOfName(str) ==
  IF ~HasDot(str) THEN "json"
  ELSE LET ext == Lower(LastSegment(str, Len(str)))
       IN  IF ext = "csv" THEN "csv"
           ELSE IF ext \in {"md", "markdown"} THEN "markdown"
           ELSE "json"

\* C27: once main is past the startup checks with an output file, the export
\* format is the explicit --export-format when given, and otherwise the one
\* the extension of the file stands for, JSON for a missing extension.
C27_FormatByExtension ==
  /\ StartupDone
  /\ main[1].pc # "exited"
  /\ IsSet(main[1].args.output)
  => main[1].export_format =
       IF IsSet(main[1].args.export_format) THEN main[1].args.export_format
       ELSE Some(FormatOfName(main[1].args.output[1]))

\* C28: the export is attempted only after the results were displayed, it
\* leaves the result list as it is, a failed export ends main with code 0, and
\* in interactive mode no export happens.
C28_DisplayBeforeExport ==
  [][IsSet(main) /\ IsSet(main') =>
       LET m == main[1]
           n == main'[1]
           exported == \E i \in DOMAIN n.events :
                         i > Len(m.events) /\ n.events[i] = "export"
       IN  /\ exported =>
                /\ Happened("display")
                /\ TruthyText(m.args.prompt)
                /\ n.results = m.results
                /\ n.exit = Some(0)
           /\ ~TruthyText(m.args.prompt) =>
                \A i \in DOMAIN n.events : n.events[i] \notin {"export", "export_error", "export_success"}]_vars

C28_Witness ==
  /\ Happened("display")
  /\ Happened("export_error")
  /\ main[1].exit = Some(0)
  /\ IsSet(main[1].results)

\* The call of get_model_response of the asyncio client has ended in the
\* except block after acompletion had returned: the response had no choices,
\* a chunk had none, or the chunk iterator raised.
FailedAfterReturn(t) ==
  /\ impl = "api_client"
  /\ IsDone(t)
  /\ t.last = "returned"
  /\ IsSet(t.result[1].error)

\* C31 as stated: a call that failed after acompletion had returned has made
\* the remote call exactly once.
C31_FailureAfterReturnCallsOnce ==
  \A i \in Tasks : FailedAfterReturn(task[i]) => task[i].attempts = 1

\* C31 amended: once acompletion has returned, no further remote call is made;
\* a failure after the return becomes a failure result without metrics, and
\* the remote calls made are the failed attempts before the return and the one
\* that returned, three at most.
C31_NoRetryAfterReturn ==
  [][\A i \in Tasks :
       /\ (i \in DOMAIN task' /\ impl' = impl /\ impl = "api_client"
             /\ task[i].last = "returned" /\ task'[i].model = task[i].model
             /\ task'[i].pc # "pending") =>
            /\ task'[i].attempts = task[i].attempts
            /\ task'[i].sent = task[i].sent
            /\ task'[i].last = "returned"
       /\ (i \in DOMAIN task' /\ FailedAfterReturn(task[i])') =>
            /\ task'[i].attempts = Len(task'[i].excs) + 1
            /\ task'[i].attempts <= MAX_ATTEMPTS
            /\ task'[i].result[1].response = None
            /\ task'[i].result[1].response_time = None]_vars

\* the second attempt returned a stream that raised after one chunk was read
C31_Witness ==
  /\ impl = "api_client"
  /\ Len(task) = 1
  /\ FailedAfterReturn(task[1])
  /\ task[1].attempts = 2
  /\ task[1].chunks = 1
  /\ task[1].result[1].error # Some(IndexErrorMessage)

RECURSIVE SumSeq(_)
SumSeq(q) == IF q = <<>> THEN 0 ELSE Head(q) + SumSeq(Tail(q))

\* C39: the response_time of a successful result is the time of all attempts
\* of the call, the failed ones included, of all backoff sleeps between them
\* and, when streaming, of reading every chunk.
C39_ResponseTimeSpansRetries ==
  \A i \in Tasks :
    (impl = "api_client" /\ IsDone(task[i]) /\ ~IsSet(task[i].result[1].error)) =>
      \E d \in CallSeconds :
        task[i].result[1].response_time =
          Some(d * (task[i].attempts + task[i].chunks) + SumSeq(task[i].waits))

\* the third attempt returned a completion: three calls of one second and
\* sleeps of 1 and 2 seconds give a response_time of 6 seconds
C39_Witness ==
  /\ impl = "api_client"
  /\ Len(task) = 1
  /\ IsDone(task[1])
  /\ task[1].attempts = 3
  /\ ~stream
  /\ ~IsSet(task[1].result[1].error)
  /\ task[1].result[1].response_time = Some(6)

\* C33: in the thread-pool compare_models the k-th progress line carries the
\* counter k of N, each line belongs to one call of its own, which had
\* finished when the line was printed, a returned batch of N models has
\* printed exactly N lines, and the returned list is in the order of the
\* model list whatever the order of the lines.
C33_ProgressNotifications ==
  impl = "legacy" =>
    /\ Len(notifications) = Len(writes)
    /\ Len(notifications) = completed_count
    /\ \A k \in 1..Len(notifications) :
         /\ notifications[k].count = k
         /\ notifications[k].total = Len(models)
         /\ writes[k].future \in 1..Len(models)
         /\ notifications[k].model = models[writes[k].future]
         /\ IsDone(task[writes[k].future])
         /\ \A j \in 1..Len(notifications) :
              j # k => writes[j].future # writes[k].future
    /\ Returned =>
         /\ Len(notifications) = Len(models)
         /\ Len(output[1]) = Len(models)
         /\ \A i \in 1..Len(models) : output[1][i].model = models[i]

\* the call for the second model finished first: the first line names the
\* second model, the returned list starts with the first
C33_Witness ==
  /\ impl = "legacy"
  /\ Returned
  /\ Len(models) = 2
  /\ models[1] # models[2]
  /\ notifications[1].model = models[2]
  /\ notifications[1].count = 1
  /\ notifications[2].count = 2
  /\ output[1][1].model = models[1]

\* get_summary was called on the result list.
Summarized == DOMAIN returned = {"get_summary"} /\ IsSet(returned["get_summary"])

\* the value of field in the result an aggregate selected by least (or
\* greatest) field among the results that have it and carry no error
Selected(rs, field, least) ==
  IF ValidResults(rs, field) = <<>> THEN None
  ELSE Some((IF least THEN MinBy(ValidResults(rs, field), field)
             ELSE MaxBy(ValidResults(rs, field), field))[field])

\* C36: get_summary does not raise for any result list, duplicates of a model
\* name with different outcomes included, and the time, token count and cost
\* printed beside the fastest, slowest, most token-efficient and cheapest
\* model are those of the result the aggregate selected.
C36_SummaryOfSelectedResult ==
  Summarized =>
    LET summary == returned["get_summary"][1]
    IN  /\ summary.raised = None
        /\ summary.value.fastest_time = Selected(self_results, "response_time", TRUE)
        /\ summary.value.slowest_time = Selected(self_results, "response_time", FALSE)
        /\ summary.value.efficient_tokens = Selected(self_results, "total_tokens", TRUE)
        /\ summary.value.cheapest_cost = Selected(self_results, "estimated_cost", TRUE)

\* One iteration of the interactive loop was run.
InteractiveStep ==
  /\ IsSet(main)
  /\ IsSet(main')
  /\ main[1].pc = "interactive"
  /\ main'[1].rounds = main[1].rounds + 1
  /\ IsSet(main'[1].line)

\* The line, without the blanks around it, is quit, exit or q in any case.
QuitCommand(line) ==
  /\ line.kind = "line"
  /\ line.more = 0
  /\ Lower(Strip(line.raw)) \in {"quit", "exit", "q"}

\* the step has reported an error
ErrorReported(m, n) ==
  \E i \in DOMAIN n.events : i > Len(m.events) /\ n.events[i] = "error"

\* C34: an iteration of the interactive loop ends the loop exactly when the
\* stripped line is quit, exit or q in any case or Ctrl-C was pressed, and
\* main then returns; an iteration that reported an error, or whose batch
\* failed for every model, is followed by the next one.
C34_LoopEndsOnQuitOrInterrupt ==
  [][InteractiveStep =>
       LET m == main[1]
           n == main'[1]
           line == n.line[1]
       IN  /\ n.pc = "exited" <=> (line.kind = "interrupt" \/ QuitCommand(line))
           /\ n.pc = "exited" => n.exit = Some(0)
           /\ n.pc # "exited" => n.pc = "interactive"
           /\ ErrorReported(m, n) => n.pc = "interactive"
           /\ (n.comparisons > m.comparisons /\ IsSet(n.results)
                /\ \A i \in DOMAIN n.results[1] : IsSet(n.results[1][i].error)) =>
                n.pc = "interactive"]_vars

\* the summary of the first batch raised, the error was reported and a second
\* line was read
C34_Witness ==
  /\ IsSet(main)
  /\ main[1].pc = "interactive"
  /\ main[1].rounds = 2
  /\ Len(main[1].events) >= 3
  /\ main[1].events[2] = "display"
  /\ main[1].events[3] = "error"

\* The line dispatches no batch: it is not a line, is empty after stripping,
\* is a quit command, or is longer than a prompt may be.
NoBatchLine(line) ==
  \/ line.kind # "line"
  \/ Len(Strip(line.raw)) = 0
  \/ QuitCommand(line)
  \/ Len(Strip(line.raw)) + line.more > MAX_PROMPT_LENGTH

\* C35: an iteration of the interactive loop dispatches no batch for a line
\* that is empty after stripping, is a quit command or fails validation, and
\* exactly one batch for every other line: to the whole selected model list,
\* with the temperature and the system prompt of the session, and with a
\* result list that holds the results of this batch alone, one per model.
C35_OneBatchPerPrompt ==
  [][InteractiveStep =>
       LET m == main[1]
           n == main'[1]
           line == n.line[1]
       IN  IF NoBatchLine(line)
           THEN /\ n.comparisons = m.comparisons
                /\ n.batch = m.batch
                /\ n.results = m.results
                /\ client' = client
           ELSE /\ n.comparisons = m.comparisons + 1
                /\ IsSet(n.batch)
                /\ n.batch[1].models = m.selected_models
                /\ n.batch[1].temperature = m.temperature
                /\ n.batch[1].system_prompt = m.args.system_prompt
                /\ n.selected_models = m.selected_models
                /\ n.temperature = m.temperature
                /\ IsSet(n.results)
                /\ \E o \in BatchOutcomes :
                     n.results[1] = ResultsOf(m.selected_models, o)
                /\ Len(n.progress) = Len(m.selected_models)]_vars

\* two batches in one session: the summary of the first raised, every call
\* of the second succeeded
C35_Witness ==
  /\ IsSet(main)
  /\ main[1].pc = "interactive"
  /\ main[1].comparisons = 2
  /\ Happened("error")
  /\ IsSet(main[1].results)
  /\ \A i \in DOMAIN main[1].results[1] : ~IsSet(main[1].results[1][i].error)

\* The Config object main has loaded, if any.
LoadedConfig ==
  IF IsSet(config) /\ ~IsSet(config[1].result[1].raised)
  THEN Some(config[1].result[1].value) ELSE None

\* C37: the temperature of a batch is the -t value when given, otherwise the
\* temperature of the loaded config when it lies in [0,1], 0 included,
\* otherwise (no config) the default 0.7.
C37_TemperaturePrecedence ==
  (IsSet(main) /\ IsSet(main[1].batch)) =>
    LET args == main[1].args
        used == main[1].batch[1].temperature
    IN  IF IsSet(args.temperature) THEN used = args.temperature[1]
        ELSE IF IsSet(LoadedConfig)
             THEN LoadedConfig[1].temperature.tenths \in 0..10 =>
                    used = LoadedConfig[1].temperature.tenths
        ELSE used = 7

\* C38: a batch dispatched without -s gets the system_prompt of the loaded
\* config, and one dispatched without --stream gets its stream value.
C38_ConfigSystemPromptAndStream ==
  (IsSet(main) /\ IsSet(main[1].batch) /\ IsSet(LoadedConfig)) =>
    LET args == main[1].args
        cfg == LoadedConfig[1]
    IN  /\ (args.system_prompt = None /\ cfg.system_prompt.type = "str") =>
             main[1].batch[1].system_prompt =
               Some(Text(Len(cfg.system_prompt.str), FALSE))
        /\ (~args.stream /\ cfg.stream.bool) => main[1].batch[1].stream
====
